---- MODULE Spec2Model ----
(***************************************************************************)
(* Run tracking of sqlmesh-openlineage: the OpenLineageConsole wrapper     *)
(* (console.py) and the events its OpenLineageEmitter (emitter.py) hands   *)
(* to the OpenLineage client; and the functions of datasets.py that turn a *)
(* snapshot into datasets and facets.                                      *)
(*                                                                         *)
(* Program state: _active_runs and _current_snapshots of the console.      *)
(* Environment: the Event Sink (the delivered events, in order), whose     *)
(* emit may raise on any call, and the UTC wall clock the emitter reads.   *)
(* History: the run ids generated so far, the run ids overwritten while    *)
(* active and the last callback with how it ended.                         *)
(*                                                                         *)
(* Specifications:                                                         *)
(*   Spec         the console callbacks (the run tracker);                 *)
(*   SpecTime     the same callbacks with the eventTime of every event;    *)
(*   SpecLineage  snapshot_to_column_lineage_facet and the datasets built  *)
(*                around it, applied to snapshots with lineage graphs;     *)
(*   SpecDataset  the naming, schema and event builders, applied to        *)
(*                snapshot descriptors.                                    *)
(***************************************************************************)
EXTENDS Integers, Sequences, FiniteSets, TLC

\* ------------------------------------------------------------------ bounds

\* Run ids generated in one execution.
MaxRuns == 2
\* Events the sink accepts in one execution.
MaxEvents == 3
\* Largest num_audits_failed the orchestrator reports.
MaxAudits == 2
\* Snapshots in one batched_intervals mapping.
MaxBatch == 2
\* Largest reading of the UTC clock, in ticks.
MaxClock == 1

\* ------------------------------------------------------------------ inputs

\* Snapshot names.
Names == {"a", "b"}

\* Snapshot: what the tracker reads of a sqlmesh Snapshot, its name.
Snapshots == [name : Names]

\* The keys of a batched_intervals dict, in iteration order: distinct snapshots.
Batches ==
    {s \in UNION {[1..n -> Snapshots] : n \in 0..MaxBatch} :
        \A i, j \in DOMAIN s : i # j => s[i] # s[j]}

\* An empty dict name -> Snapshot.
NoSnapshots == [n \in {} |-> n]

\* Python's None for a run id (a uuid4 string is never empty, so never falsy).
NoRun == 0

\* ------------------------------------------------------------------ state

VARIABLES
    active_runs,        \* _active_runs: insertion-ordered dict name -> run id
    current_snapshots,  \* _current_snapshots: dict name -> Snapshot
    events,             \* the events client.emit accepted, in order
    issued,             \* issued[r]: the name run id r was generated for
    superseded,         \* run ids overwritten in _active_runs by a later start
    last,               \* the last callback: its arguments and how it ended
    now,                \* the UTC wall clock (SpecTime)
    stamps,             \* stamps[i]: the eventTime of events[i] (SpecTime)
    steady,             \* the i with no backward clock step since events[i]
    arg,                \* the snapshot a function of datasets.py is applied to
    ret,                \* the function applied to arg and what it returned
    installed,          \* install._installed
    environ,            \* os.environ: the OPENLINEAGE_* variables that are set
    wrappers,           \* the OpenLineageConsole objects constructed, in order
    consoles,           \* the consoles passed to sqlmesh's set_console, in order
    pc,                 \* pc[t]: the statement worker thread t is at (SpecThreads)
    local,              \* local[t]: the locals of the callback thread t runs
    wrapped             \* the calls the last callback made on self._wrapped

tracker_vars == <<active_runs, current_snapshots, events, issued, superseded, last>>

time_vars == <<now, stamps, steady>>

call_vars == <<arg, ret>>

install_vars == <<installed, environ, wrappers, consoles>>

thread_vars == <<pc, local>>

vars == <<tracker_vars, time_vars, call_vars, install_vars, thread_vars, wrapped>>

\* ------------------------------------------------------------- dict helpers

\* name in self._active_runs
IsActive(runs, name) == \E i \in DOMAIN runs : runs[i].name = name

\* self._active_runs.get(name): the run id, or None.
ActiveRun(runs, name) ==
    IF IsActive(runs, name)
    THEN (CHOOSE e \in {runs[i] : i \in DOMAIN runs} : e.name = name).run
    ELSE NoRun

\* Mutant of ActivePut: the entry is added without replacing the one the
\* name already has.
ActivePut_append(runs, name, run_id) == Append(runs, [name |-> name, run |-> run_id])

\* self._active_runs[name] = run_id: an existing key keeps its place in the
\* iteration order, a new key goes last.
ActivePut(runs, name, run_id) ==
    IF IsActive(runs, name)
    THEN [i \in DOMAIN runs |->
            IF runs[i].name = name THEN [name |-> name, run |-> run_id] ELSE runs[i]]
    ELSE Append(runs, [name |-> name, run |-> run_id])

\* Mutant of ActivePop: the run id is read and the entry is left in place
\* (get instead of pop).
ActivePop_get(runs, name) == runs

\* Mutant of ActivePop: the last inserted entry is removed whatever its name
\* (popitem instead of pop).
ActivePop_popitem(runs, name) ==
    IF runs = <<>> THEN runs ELSE SubSeq(runs, 1, Len(runs) - 1)

\* Mutant of ActivePop: the entries of the other names are removed and the
\* one of the name is kept.
ActivePop_others(runs, name) == SelectSeq(runs, LAMBDA e : e.name = name)

\* self._active_runs.pop(name, None): the dict without the key.
ActivePop(runs, name) == SelectSeq(runs, LAMBDA e : e.name # name)

\* Mutant of SnapshotPut: the snapshot is not stored.
SnapshotPut_skipped(snaps, snapshot) == snaps

\* self._current_snapshots[snapshot.name] = snapshot
SnapshotPut(snaps, snapshot) ==
    [n \in DOMAIN snaps \cup {snapshot.name} |->
        IF n = snapshot.name THEN snapshot ELSE snaps[n]]

\* Mutant of StoreBatch: only the first snapshot of the batch is stored.
StoreBatch_first(snaps, batch) ==
    IF batch = <<>> THEN snaps ELSE SnapshotPut(snaps, Head(batch))

\* for snapshot in batched_intervals.keys(): _current_snapshots[name] = snapshot
RECURSIVE StoreBatch(_, _)
StoreBatch(snaps, batch) ==
    IF batch = <<>> THEN snaps
    ELSE StoreBatch(SnapshotPut(snaps, Head(batch)), Tail(batch))

\* ------------------------------------------------------------------ events

Digit == <<"0", "1", "2", "3", "4", "5", "6", "7", "8", "9">>

\* str(n) of a non-negative int, as its decimal digits.
RECURSIVE IntToStr(_)
IntToStr(n) ==
    IF n < 10 THEN <<Digit[n + 1]>>
    ELSE IntToStr(n \div 10) \o <<Digit[(n % 10) + 1]>>

\* f"Audit failed: {num_audits_failed} audit(s) failed", as its fragments.
AuditError(num_audits_failed) ==
    <<"Audit failed: ">> \o IntToStr(num_audits_failed) \o <<" audit(s) failed">>

\* Mutant of StopError: the message does not depend on success.
StopError_interrupted(success) == <<"Evaluation ", "interrupted">>

\* "Evaluation interrupted" if not success else "Unknown error", as fragments.
StopError(success) ==
    IF ~success THEN <<"Evaluation ", "interrupted">> ELSE <<"Unknown ", "error">>

NoError == <<>>

\* emit_snapshot_start: the RunEvent it builds.
StartEvent(snapshot, run_id) ==
    [eventType |-> "START", runId |-> run_id, job |-> snapshot.name,
     error |-> NoError]

\* emit_snapshot_complete: the RunEvent it builds.
CompleteEvent(snapshot, run_id) ==
    [eventType |-> "COMPLETE", runId |-> run_id, job |-> snapshot.name,
     error |-> NoError]

\* emit_snapshot_fail: the RunEvent it builds (no inputs, no outputs).
FailEvent(snapshot, run_id, error) ==
    [eventType |-> "FAIL", runId |-> run_id, job |-> snapshot.name,
     error |-> error]

IsTerminal(ev) == ev.eventType \in {"COMPLETE", "FAIL"}

\* ---------------------------------------------------------------- callbacks

\* A callback as its caller sees it: the method, the name of the snapshot it
\* was called with ("-" for a phase callback) and whether it raised.
Call(op, name, raised) == [op |-> op, name |-> name, raised |-> raised]

\* OpenLineageConsole.__init__
InitTracker ==
    /\ active_runs = <<>>
    /\ current_snapshots = NoSnapshots
    /\ events = <<>>
    /\ issued = <<>>
    /\ superseded = {}
    /\ last = Call("init", "-", FALSE)

\* The clock at its first reading, no event stamped.
InitTime == now = 0 /\ stamps = <<>> /\ steady = {}

\* No function of datasets.py applied.
NoCall == [fn |-> "-"]

InitCall == arg = NoCall /\ ret = NoCall

\* install.py as imported: _installed = False; nothing constructed or set,
\* none of the OPENLINEAGE_* variables set.
InitInstall ==
    /\ installed = FALSE
    /\ environ = [k \in {} |-> k]
    /\ wrappers = <<>>
    /\ consoles = <<>>

\* No worker thread is in a callback.
Threads == {1, 2}

NoLocals == [run_id |-> 0, num_audits_failed |-> 0]

InitThreads ==
    /\ pc = [t \in Threads |-> "idle"]
    /\ local = [t \in Threads |-> NoLocals]

\* The wrapped console has been called by no callback.
InitWrapped ==
    wrapped = [received |-> [method |-> "-", args |-> <<>>], forwarded |-> <<>>]

Init == InitTracker /\ InitTime /\ InitCall /\ InitInstall /\ InitThreads /\ InitWrapped

\* start_evaluation_progress(batched_intervals, ...)
StartEvaluationProgress(batch) ==
    /\ current_snapshots' = StoreBatch(current_snapshots, batch)
    /\ last' = Call("start_evaluation_progress", "-", FALSE)
    /\ UNCHANGED <<active_runs, events, issued, superseded>>

\* Mutant of NewRunId: the run id is generated once and used for every start.
NewRunId_once(ids) == 1

\* str(uuid.uuid4()): a run id no earlier call returned.
NewRunId(ids) == Len(ids) + 1

\* start_snapshot_evaluation_progress(snapshot): sink_ok is whether
\* client.emit returns (TRUE) or raises (FALSE).
StartSnapshotEvaluationProgress(snapshot, sink_ok) ==
    LET run_id == NewRunId(issued)
        old == ActiveRun(active_runs, snapshot.name)
    IN  /\ Len(issued) < MaxRuns
        /\ sink_ok => Len(events) < MaxEvents
        /\ issued' = Append(issued, snapshot.name)
        /\ superseded' = IF old # NoRun THEN superseded \cup {old} ELSE superseded
        /\ active_runs' = ActivePut(active_runs, snapshot.name, run_id)
        /\ current_snapshots' = SnapshotPut(current_snapshots, snapshot)
        /\ events' = IF sink_ok THEN Append(events, StartEvent(snapshot, run_id))
                     ELSE events
        /\ last' = Call("start_snapshot_evaluation_progress", snapshot.name, ~sink_ok)

\* Mutant of UpdateEvent: num_audits_failed is not looked at.
UpdateEvent_ignores_audits(snapshot, run_id, num_audits_failed) ==
    CompleteEvent(snapshot, run_id)

\* The event update_snapshot_evaluation_progress emits for an active run.
UpdateEvent(snapshot, run_id, num_audits_failed) ==
    IF num_audits_failed > 0
    THEN FailEvent(snapshot, run_id, AuditError(num_audits_failed))
    ELSE CompleteEvent(snapshot, run_id)

\* update_snapshot_evaluation_progress(snapshot, ..., num_audits_failed, ...)
UpdateSnapshotEvaluationProgress(snapshot, num_audits_failed, sink_ok) ==
    LET run_id == ActiveRun(active_runs, snapshot.name)
        event == UpdateEvent(snapshot, run_id, num_audits_failed)
        emits == run_id # NoRun
    IN  /\ ~emits => sink_ok
        /\ (emits /\ sink_ok) => Len(events) < MaxEvents
        /\ active_runs' = ActivePop(active_runs, snapshot.name)
        /\ events' = IF emits /\ sink_ok THEN Append(events, event) ELSE events
        /\ last' = Call("update_snapshot_evaluation_progress", snapshot.name, ~sink_ok)
        /\ UNCHANGED <<current_snapshots, issued, superseded>>

\* Mutant of SweepEvents: a stored snapshot with no active run gets a FAIL
\* too, with the run id None.
SweepEvents_stored(runs, snaps, success) ==
    LET swept == SelectSeq(runs, LAMBDA e : e.name \in DOMAIN snaps /\ e.run # NoRun)
        idle == {n \in DOMAIN snaps : ~IsActive(runs, n)}
    IN  [i \in 1..Len(swept) |->
            FailEvent(snaps[swept[i].name], swept[i].run, StopError(success))]
        \o (IF idle = {} THEN <<>>
            ELSE <<FailEvent(snaps[CHOOSE n \in idle : TRUE], NoRun,
                             StopError(success))>>)

\* The FAIL events the sweep of stop_evaluation_progress builds, in the
\* order of list(self._active_runs.items()); an entry with no stored
\* snapshot is skipped.
SweepEvents(runs, snaps, success) ==
    LET swept == SelectSeq(runs, LAMBDA e : e.name \in DOMAIN snaps /\ e.run # NoRun)
    IN  [i \in 1..Len(swept) |->
            FailEvent(snaps[swept[i].name], swept[i].run, StopError(success))]

\* stop_evaluation_progress(success): fail_at is the emit of the sweep that
\* raises (0: none does).  An emit that raises ends the callback there.
StopEvaluationProgress(success, fail_at) ==
    LET sweep == SweepEvents(active_runs, current_snapshots, success)
        delivered == IF fail_at = 0 THEN sweep ELSE SubSeq(sweep, 1, fail_at - 1)
    IN  /\ fail_at \in 0..Len(sweep)
        /\ Len(events) + Len(delivered) <= MaxEvents
        /\ events' = events \o delivered
        /\ IF fail_at = 0
           THEN /\ active_runs' = <<>>
                /\ current_snapshots' = NoSnapshots
           ELSE UNCHANGED <<active_runs, current_snapshots>>
        /\ last' = Call("stop_evaluation_progress", "-", fail_at # 0)
        /\ UNCHANGED <<issued, superseded>>

Next ==
    \/ \E batch \in Batches :
            StartEvaluationProgress(batch) /\ UNCHANGED <<time_vars, call_vars, install_vars, thread_vars, wrapped>>
    \/ \E s \in Snapshots, ok \in BOOLEAN :
            StartSnapshotEvaluationProgress(s, ok) /\ UNCHANGED <<time_vars, call_vars, install_vars, thread_vars, wrapped>>
    \/ \E s \in Snapshots, n \in 0..MaxAudits, ok \in BOOLEAN :
            UpdateSnapshotEvaluationProgress(s, n, ok) /\ UNCHANGED <<time_vars, call_vars, install_vars, thread_vars, wrapped>>
    \/ \E success \in BOOLEAN, k \in 0..MaxRuns :
            StopEvaluationProgress(success, k) /\ UNCHANGED <<time_vars, call_vars, install_vars, thread_vars, wrapped>>

Spec == Init /\ [][Next]_vars


\* ------------------------------------------------- forwarded callbacks

\* The creation and promotion progress methods the console overrides only
\* to forward them: those called for a list of snapshots or with success,
\* and those called with one snapshot.
PhaseForwards ==
    {"start_creation_progress", "stop_creation_progress",
     "start_promotion_progress", "stop_promotion_progress"}

SnapshotForwards == {"update_creation_progress", "update_promotion_progress"}

\* Mutant of Forward: the forwarded callback also resets the run tracking.
Forward_resets(op, name) ==
    /\ last' = Call(op, name, FALSE)
    /\ active_runs' = <<>>
    /\ UNCHANGED <<current_snapshots, events, issued, superseded>>

\* start/update/stop_creation_progress, start/update/stop_promotion_progress:
\* self._wrapped.<method>(...) and nothing else.
Forward(op, name) ==
    /\ last' = Call(op, name, FALSE)
    /\ UNCHANGED <<active_runs, current_snapshots, events, issued, superseded>>

\* Every callback of the console: the evaluation callbacks, with a sink
\* that may raise, and the forwarded ones. An update reports no failed audit
\* or one: the count chooses the event and plays no part in the tracking.
NextConsole ==
    \/ \E batch \in Batches :
            StartEvaluationProgress(batch) /\ UNCHANGED <<time_vars, call_vars, install_vars, thread_vars, wrapped>>
    \/ \E s \in Snapshots, ok \in BOOLEAN :
            StartSnapshotEvaluationProgress(s, ok) /\ UNCHANGED <<time_vars, call_vars, install_vars, thread_vars, wrapped>>
    \/ \E s \in Snapshots, n \in 0..1, ok \in BOOLEAN :
            UpdateSnapshotEvaluationProgress(s, n, ok) /\ UNCHANGED <<time_vars, call_vars, install_vars, thread_vars, wrapped>>
    \/ \E success \in BOOLEAN, k \in 0..MaxRuns :
            StopEvaluationProgress(success, k) /\ UNCHANGED <<time_vars, call_vars, install_vars, thread_vars, wrapped>>
    \/ \E op \in PhaseForwards :
            Forward(op, "-") /\ UNCHANGED <<time_vars, call_vars, install_vars, thread_vars, wrapped>>
    \/ \E op \in SnapshotForwards, s \in Snapshots :
            Forward(op, s.name) /\ UNCHANGED <<time_vars, call_vars, install_vars, thread_vars, wrapped>>

SpecConsole == Init /\ [][NextConsole]_vars



\* ------------------------------------------------------- the wrapped console

\* The parameters of each callback in the order of its signature, which is
\* the order of sqlmesh's Console.
Parameters(method) ==
    CASE method = "start_evaluation_progress" ->
            <<"batched_intervals", "environment_naming_info", "default_catalog",
              "audit_only">>
      [] method = "start_snapshot_evaluation_progress" -> <<"snapshot", "audit_only">>
      [] method = "update_snapshot_evaluation_progress" ->
            <<"snapshot", "interval", "batch_idx", "duration_ms",
              "num_audits_passed", "num_audits_failed", "audit_only",
              "execution_stats", "auto_restatement_triggers">>
      [] method \in {"stop_evaluation_progress", "stop_creation_progress",
                     "stop_promotion_progress"} -> <<"success">>
      [] method \in {"start_creation_progress", "start_promotion_progress"} ->
            <<"snapshots", "environment_naming_info", "default_catalog">>
      [] method = "update_creation_progress" -> <<"snapshot">>
      [] method = "update_promotion_progress" -> <<"snapshot", "promoted">>

\* The value the orchestrator passes for a parameter the tracker does not
\* read: one value per parameter.
Opaque(parameter) == <<parameter>>

\* The arguments of a call: given are the ones the model varies, the others
\* are opaque.
Arguments(method, given) ==
    [p \in {Parameters(method)[i] : i \in DOMAIN Parameters(method)} |->
        IF p \in DOMAIN given THEN given[p] ELSE Opaque(p)]

\* The positional arguments of self._wrapped.<method>(...), as each method
\* of the console lists them.
WrappedArgs(method, args) ==
    CASE method = "start_evaluation_progress" ->
            <<args.batched_intervals, args.environment_naming_info,
              args.default_catalog, args.audit_only>>
      [] method = "start_snapshot_evaluation_progress" ->
            <<args.snapshot, args.audit_only>>
      [] method = "update_snapshot_evaluation_progress" ->
            <<args.snapshot, args.interval, args.batch_idx, args.duration_ms,
              args.num_audits_passed, args.num_audits_failed, args.audit_only,
              args.execution_stats, args.auto_restatement_triggers>>
      [] method \in {"stop_evaluation_progress", "stop_creation_progress",
                     "stop_promotion_progress"} -> <<args.success>>
      [] method \in {"start_creation_progress", "start_promotion_progress"} ->
            <<args.snapshots, args.environment_naming_info, args.default_catalog>>
      [] method = "update_creation_progress" -> <<args.snapshot>>
      [] method = "update_promotion_progress" -> <<args.snapshot, args.promoted>>

\* Mutant of Delegate: the wrapped console is called only when the callback
\* emitted an event.
Delegate_if_emitted(raised, method, given) ==
    wrapped' =
        [received |-> [method |-> method, args |-> Arguments(method, given)],
         forwarded |->
            IF raised \/ events' = events THEN <<>>
            ELSE <<[method |-> method,
                    args |-> WrappedArgs(method, Arguments(method, given))]>>]

\* The last statement of every callback, self._wrapped.<method>(...): it is
\* reached unless an emit raised before it. received is the call the
\* console got, forwarded the calls it made on the wrapped console.
Delegate(raised, method, given) ==
    wrapped' =
        [received |-> [method |-> method, args |-> Arguments(method, given)],
         forwarded |->
            IF raised THEN <<>>
            ELSE <<[method |-> method,
                    args |-> WrappedArgs(method, Arguments(method, given))]>>]

\* Every callback of the console with what it does to the wrapped console.
\* The sink accepts every START and every event of the sweep; it may reject
\* the terminal event of an update, and the callback then ends before it
\* reaches the wrapped console. An update reports no failed audit or one.
NextWrapped ==
    \/ \E batch \in Batches :
            /\ StartEvaluationProgress(batch)
            /\ Delegate(FALSE, "start_evaluation_progress",
                        [batched_intervals |-> batch])
            /\ UNCHANGED <<time_vars, call_vars, install_vars, thread_vars>>
    \/ \E s \in Snapshots :
            /\ StartSnapshotEvaluationProgress(s, TRUE)
            /\ Delegate(FALSE, "start_snapshot_evaluation_progress", [snapshot |-> s])
            /\ UNCHANGED <<time_vars, call_vars, install_vars, thread_vars>>
    \/ \E s \in Snapshots, n \in 0..1, ok \in BOOLEAN :
            /\ UpdateSnapshotEvaluationProgress(s, n, ok)
            /\ Delegate(~ok, "update_snapshot_evaluation_progress",
                        [snapshot |-> s, num_audits_failed |-> n])
            /\ UNCHANGED <<time_vars, call_vars, install_vars, thread_vars>>
    \/ \E success \in BOOLEAN :
            /\ StopEvaluationProgress(success, 0)
            /\ Delegate(FALSE, "stop_evaluation_progress", [success |-> success])
            /\ UNCHANGED <<time_vars, call_vars, install_vars, thread_vars>>
    \/ \E op \in PhaseForwards :
            /\ Forward(op, "-")
            /\ Delegate(FALSE, op, [k \in {} |-> k])
            /\ UNCHANGED <<time_vars, call_vars, install_vars, thread_vars>>
    \/ \E op \in SnapshotForwards, s \in Snapshots :
            /\ Forward(op, s.name)
            /\ Delegate(FALSE, op, [snapshot |-> s])
            /\ UNCHANGED <<time_vars, call_vars, install_vars, thread_vars>>

SpecWrapped == Init /\ [][NextWrapped]_vars

\* ------------------------------------------------------------- event times

\* The readings datetime.now(timezone.utc) can return.
Clock == 0..MaxClock

\* Mutant of EventTime: the time left to the end of the clock's range.
EventTime_remaining(reading) == MaxClock - reading

\* eventTime=datetime.now(timezone.utc).isoformat(): the reading taken when
\* the event is built.
EventTime(reading) == reading

\* The wall clock is set by its environment: it moves forward, or is
\* stepped back (clock synchronisation, an operator).
ClockStep(reading) ==
    /\ reading # now
    /\ now' = reading
    /\ steady' = IF reading < now THEN {} ELSE steady
    /\ UNCHANGED stamps

\* Every event a callback hands to the sink carries the reading of the
\* clock at that time.
StampEmitted ==
    /\ stamps' = stamps \o [i \in 1..(Len(events') - Len(events)) |-> EventTime(now)]
    /\ steady' = steady \cup ((Len(events) + 1)..Len(events'))
    /\ now' = now

\* The callbacks with the clock: the sink accepts every event (an event it
\* rejects is in no log and has no eventTime to compare), and an update
\* reports no failed audit or one.
NextTime ==
    \/ \E reading \in Clock :
            ClockStep(reading)
            /\ UNCHANGED <<tracker_vars, call_vars, install_vars, thread_vars, wrapped>>
    \/ \E batch \in Batches :
            StartEvaluationProgress(batch) /\ StampEmitted
            /\ UNCHANGED <<call_vars, install_vars, thread_vars, wrapped>>
    \/ \E s \in Snapshots :
            StartSnapshotEvaluationProgress(s, TRUE) /\ StampEmitted
            /\ UNCHANGED <<call_vars, install_vars, thread_vars, wrapped>>
    \/ \E s \in Snapshots, n \in 0..1 :
            UpdateSnapshotEvaluationProgress(s, n, TRUE) /\ StampEmitted
            /\ UNCHANGED <<call_vars, install_vars, thread_vars, wrapped>>
    \/ \E success \in BOOLEAN :
            StopEvaluationProgress(success, 0) /\ StampEmitted
            /\ UNCHANGED <<call_vars, install_vars, thread_vars, wrapped>>

SpecTime == Init /\ [][NextTime]_vars

\* ---------------------------------------------------------------- datasets

\* Python's None where a dict, a facet or a dataset is expected.
None == [none |-> TRUE]

\* Python's None where a name part is expected.
NonePart == "<None>"

\* if p, for a name part: neither None nor the empty string.
Truthy(p) == p # "" /\ p # NonePart

\* An empty dict.
EmptyDict == [k \in {} |-> k]

\* The namespace the emitter was constructed with (the console's default).
Namespace == "sqlmesh"

\* sep.join(parts), as the fragments of the text.
RECURSIVE Join(_, _)
Join(sep, parts) ==
    IF parts = <<>> THEN <<>>
    ELSE IF Len(parts) = 1 THEN <<parts[1]>>
    ELSE <<parts[1], sep>> \o Join(sep, Tail(parts))

\* Mutant of DotJoin: every part is joined, empty or not.
DotJoin_all_parts(parts) == Join(".", parts)

\* ".".join(p for p in parts if p)
DotJoin(parts) == Join(".", SelectSeq(parts, Truthy))

\* snapshot_to_table_name(snapshot)
SnapshotToTableName(snapshot) ==
    LET qvn == snapshot.qualified_view_name
    IN  DotJoin(<<qvn.catalog, qvn.schema_name, qvn.table>>)

\* str(dtype) of a sqlglot DataType: the SQL text of the type.
TypeToStr(dtype) == dtype.this

\* getattr(model, "columns_to_types", None) of a snapshot that passed the
\* is_model and model tests; <<>> stands for None and for an empty mapping.
ColumnsToTypes(snapshot) == snapshot.model.columns_to_types

\* The three early returns shared by snapshot_to_schema_facet and
\* snapshot_to_column_lineage_facet: no model, or no typed columns.
HasTypedColumns(snapshot) ==
    /\ snapshot.is_model
    /\ snapshot.model # None
    /\ ColumnsToTypes(snapshot) # <<>>

\* Mutant of SchemaFields: the fields are listed last column first.
SchemaFields_reversed(columns) ==
    [i \in 1..Len(columns) |->
        [name |-> columns[Len(columns) + 1 - i].name,
         type |-> TypeToStr(columns[Len(columns) + 1 - i].dtype)]]

\* [SchemaDatasetFacetFields(name=col, type=str(dtype)) for col, dtype in columns.items()]
SchemaFields(columns) ==
    [i \in 1..Len(columns) |->
        [name |-> columns[i].name, type |-> TypeToStr(columns[i].dtype)]]

\* snapshot_to_schema_facet(snapshot)
SnapshotToSchemaFacet(snapshot) ==
    IF ~HasTypedColumns(snapshot) THEN None
    ELSE [fields |-> SchemaFields(ColumnsToTypes(snapshot))]

\* ----------------------------------------------------------- lineage walker

\* A lineage node whose expression holds no exp.Table (find returns None).
NoTable == [catalog |-> "", db |-> "", name |-> ""]

\* A lineage node with no expression: expression.find raises.
NoExpression == [table |-> None]

\* lineage(col_name, model) raises: there is no graph to walk.
NoGraph == <<>>

\* exp.to_column(name).name: the last part of a dotted column reference.
ToColumnName(name) == name[Len(name)]

\* The table name of an input field: ".".join(p for p in table_parts if p).
TableName(table) == DotJoin(<<table.catalog, table.db, table.name>>)

\* InputField(namespace=namespace, name=table_name, field=source_col)
InputField(namespace, node) ==
    [namespace |-> namespace,
     name |-> TableName(node.expression.table),
     field |-> ToColumnName(node.name)]

\* Visiting one node of node.walk() raises: a leaf without an expression.
NodeRaises(node) == ~node.downstream /\ node.expression = NoExpression

\* Mutant of Qualifies: a node with downstream nodes is not skipped.
Qualifies_any_node(node) ==
    /\ node.expression # NoExpression
    /\ node.expression.table # NoTable

\* The node adds an input field: no downstream and a table in its expression.
Qualifies(node) ==
    /\ ~node.downstream
    /\ node.expression # NoExpression
    /\ node.expression.table # NoTable

\* Mutant of ColumnInputFields: a (table, column) already listed is not
\* listed again.
RECURSIVE ColumnInputFields_dedup(_, _)
ColumnInputFields_dedup(namespace, walk) ==
    IF walk = <<>> THEN <<>>
    ELSE LET n == Len(walk)
             before == ColumnInputFields_dedup(namespace, SubSeq(walk, 1, n - 1))
             field == InputField(namespace, walk[n])
         IN  IF Qualifies(walk[n]) /\ \A i \in DOMAIN before : before[i] # field
             THEN Append(before, field)
             ELSE before

\* for lineage_node in node.walk(): ... input_fields.append(...), for a walk
\* on which no node raises: the qualifying nodes in walk order.
ColumnInputFields(namespace, walk) ==
    LET leaves == SelectSeq(walk, Qualifies)
    IN  [i \in 1..Len(leaves) |-> InputField(namespace, leaves[i])]

\* The body of the per-column try raises: lineage() does, or a node does.
ColumnRaises(walk) == walk = NoGraph \/ \E i \in DOMAIN walk : NodeRaises(walk[i])

\* Fields(inputFields=input_fields, transformationType="", transformationDescription="")
Fields(input_fields) ==
    [inputFields |-> input_fields, transformationType |-> "",
     transformationDescription |-> ""]

\* Mutant of LineageFields: without the per-column try, the first column
\* that raises ends the loop and the outer handler drops every column.
LineageFields_no_column_try(namespace, columns, graphs) ==
    IF \E i \in DOMAIN columns : ColumnRaises(graphs[columns[i].name]) THEN <<>>
    ELSE LET kept == SelectSeq(columns, LAMBDA c :
                        ColumnInputFields(namespace, graphs[c.name]) # <<>>)
         IN  [i \in 1..Len(kept) |->
                [column |-> kept[i].name,
                 fields |-> Fields(ColumnInputFields(namespace, graphs[kept[i].name]))]]

\* Mutant of LineageFields: a column with no input field is kept, with an
\* empty list.
LineageFields_keeps_empty(namespace, columns, graphs) ==
    LET kept == SelectSeq(columns, LAMBDA c : ~ColumnRaises(graphs[c.name]))
    IN  [i \in 1..Len(kept) |->
            [column |-> kept[i].name,
             fields |-> Fields(ColumnInputFields(namespace, graphs[kept[i].name]))]]

\* for col_name in columns.keys(): try ... except Exception: continue.  The
\* dict `fields` in insertion order: the columns that did not raise and have
\* at least one input field.
LineageFields(namespace, columns, graphs) ==
    LET kept == SelectSeq(columns, LAMBDA c :
                    /\ ~ColumnRaises(graphs[c.name])
                    /\ ColumnInputFields(namespace, graphs[c.name]) # <<>>)
    IN  [i \in 1..Len(kept) |->
            [column |-> kept[i].name,
             fields |-> Fields(ColumnInputFields(namespace, graphs[kept[i].name]))]]

\* snapshot_to_column_lineage_facet(snapshot, namespace): the import of the
\* lineage facility raising is caught by the outer handler.
SnapshotToColumnLineageFacet(snapshot, namespace) ==
    IF ~HasTypedColumns(snapshot) THEN None
    ELSE IF ~snapshot.model.lineage.available THEN None
    ELSE LET fields == LineageFields(namespace, ColumnsToTypes(snapshot),
                                     snapshot.model.lineage.graphs)
         IN  IF fields = <<>> THEN None ELSE [fields |-> fields]

\* ------------------------------------------------------------ dataset mapper

\* d[k] = v
DictPut(d, k, v) == [x \in DOMAIN d \cup {k} |-> IF x = k THEN v ELSE d[x]]

\* Mutant of DictUpdate: the dict is replaced by the other one.
DictUpdate_replace(d, other) == other

\* Mutant of DictUpdate: a key the dict already has keeps its value.
DictUpdate_keeps_own(d, other) ==
    [x \in DOMAIN d \cup DOMAIN other |-> IF x \in DOMAIN d THEN d[x] ELSE other[x]]

\* d.update(other)
DictUpdate(d, other) ==
    [x \in DOMAIN d \cup DOMAIN other |-> IF x \in DOMAIN other THEN other[x] ELSE d[x]]

\* Python's None where an int is expected (the ints of the model are >= 0).
NoInt == 0 - 1

\* build_run_facets(duration_ms, execution_stats)
BuildRunFacets(duration_ms, execution_stats) ==
    IF duration_ms = NoInt /\ execution_stats = None THEN EmptyDict
    ELSE LET base == [_producer |-> "sqlmesh-openlineage",
                      _schemaURL |-> "SQLMeshExecutionFacet.json"]
             timed == IF duration_ms # NoInt
                      THEN DictPut(base, "durationMs", duration_ms) ELSE base
             rows == IF execution_stats # None
                        /\ execution_stats.total_rows_processed # NoInt
                     THEN DictPut(timed, "rowsProcessed",
                                  execution_stats.total_rows_processed)
                     ELSE timed
             bytes == IF execution_stats # None
                         /\ execution_stats.total_bytes_processed # NoInt
                      THEN DictPut(rows, "bytesProcessed",
                                   execution_stats.total_bytes_processed)
                      ELSE rows
         IN  [sqlmesh_execution |-> bytes]

\* build_output_facets(execution_stats)
BuildOutputFacets(execution_stats) ==
    IF execution_stats # None /\ execution_stats.total_rows_processed # NoInt
    THEN [outputStatistics |->
            [rowCount |-> execution_stats.total_rows_processed,
             size |-> execution_stats.total_bytes_processed]]
    ELSE EmptyDict

\* if facets: neither None nor an empty dict.
TruthyDict(d) == d # None /\ DOMAIN d # {}

\* Mutant of SnapshotToOutputDataset: no dataset without column lineage.
SnapshotToOutputDataset_needs_lineage(snapshot, namespace, facets) ==
    IF ~snapshot.is_model THEN None
    ELSE IF SnapshotToColumnLineageFacet(snapshot, namespace) = None THEN None
    ELSE [namespace |-> namespace,
          name |-> SnapshotToTableName(snapshot),
          facets |-> DictPut(EmptyDict, "columnLineage",
                             SnapshotToColumnLineageFacet(snapshot, namespace))]

\* snapshot_to_output_dataset(snapshot, namespace, facets)
SnapshotToOutputDataset(snapshot, namespace, facets) ==
    IF ~snapshot.is_model THEN None
    ELSE LET schema_facet == SnapshotToSchemaFacet(snapshot)
             with_schema == IF schema_facet # None
                            THEN DictPut(EmptyDict, "schema", schema_facet)
                            ELSE EmptyDict
             column_lineage_facet == SnapshotToColumnLineageFacet(snapshot, namespace)
             with_lineage == IF column_lineage_facet # None
                             THEN DictPut(with_schema, "columnLineage", column_lineage_facet)
                             ELSE with_schema
             all_facets == IF TruthyDict(facets)
                           THEN DictUpdate(with_lineage, facets) ELSE with_lineage
         IN  [namespace |-> namespace,
              name |-> SnapshotToTableName(snapshot),
              facets |-> IF TruthyDict(all_facets) THEN all_facets ELSE None]

\* Mutant of SnapshotToInputDatasets: the parents are listed last first.
SnapshotToInputDatasets_reversed(snapshot, namespace) ==
    [i \in 1..Len(snapshot.parents) |->
        [namespace |-> namespace,
         name |-> snapshot.parents[Len(snapshot.parents) + 1 - i].name]]

\* snapshot_to_input_datasets(snapshot, namespace)
SnapshotToInputDatasets(snapshot, namespace) ==
    [i \in 1..Len(snapshot.parents) |->
        [namespace |-> namespace, name |-> snapshot.parents[i].name]]

\* ------------------------------------------------------------- event builder

Producer == "sqlmesh-openlineage"

\* Mutant of Outputs: the list holds whatever the mapper returned.
Outputs_unchecked(output) == <<output>>

\* outputs=[output] if output else []
Outputs(output) == IF output # None THEN <<output>> ELSE <<>>

\* emit_snapshot_start(snapshot, run_id): the whole RunEvent.
StartRunEvent(snapshot, run_id, namespace) ==
    [eventType |-> "START",
     run |-> [runId |-> run_id, facets |-> EmptyDict],
     job |-> [namespace |-> namespace, name |-> snapshot.name],
     inputs |-> SnapshotToInputDatasets(snapshot, namespace),
     outputs |-> Outputs(SnapshotToOutputDataset(snapshot, namespace, None)),
     producer |-> Producer]

\* emit_snapshot_complete(snapshot, run_id, interval, duration_ms,
\* execution_stats): the whole RunEvent.
CompleteRunEvent(snapshot, run_id, namespace, duration_ms, execution_stats) ==
    [eventType |-> "COMPLETE",
     run |-> [runId |-> run_id,
              facets |-> BuildRunFacets(duration_ms, execution_stats)],
     job |-> [namespace |-> namespace, name |-> snapshot.name],
     inputs |-> <<>>,
     outputs |-> Outputs(SnapshotToOutputDataset(snapshot, namespace,
                            BuildOutputFacets(execution_stats))),
     producer |-> Producer]

\* Mutant of FailRunEvent: the datasets are derived as for START.
FailRunEvent_with_datasets(snapshot, run_id, namespace, error) ==
    [eventType |-> "FAIL",
     run |-> [runId |-> run_id,
              facets |-> [errorMessage |->
                            [message |-> error, programmingLanguage |-> "python"]]],
     job |-> [namespace |-> namespace, name |-> snapshot.name],
     inputs |-> SnapshotToInputDatasets(snapshot, namespace),
     outputs |-> Outputs(SnapshotToOutputDataset(snapshot, namespace, None)),
     producer |-> Producer]

\* emit_snapshot_fail(snapshot, run_id, error): the whole RunEvent; error is
\* the str the console passes, so str(error) is error.
FailRunEvent(snapshot, run_id, namespace, error) ==
    [eventType |-> "FAIL",
     run |-> [runId |-> run_id,
              facets |-> [errorMessage |->
                            [message |-> error, programmingLanguage |-> "python"]]],
     job |-> [namespace |-> namespace, name |-> snapshot.name],
     inputs |-> <<>>,
     outputs |-> <<>>,
     producer |-> Producer]

\* ------------------------------------------------- inputs of the functions

\* Column names, in the alphabet of the models below.
ColumnNames == {"id", "name"}

\* sqlglot DataTypes.
DataTypes == {[this |-> "INT"], [this |-> "VARCHAR"]}

\* The keys and values of a columns_to_types mapping, in iteration order:
\* distinct column names, each with a type.
ColumnLists ==
    {c \in UNION {[1..n -> [name : ColumnNames, dtype : DataTypes]] :
                    n \in 0..Cardinality(ColumnNames)} :
        /\ \A i, j \in DOMAIN c : i # j => c[i].name # c[j].name
        /\ \A i \in DOMAIN c : c[i].name = "name" => c[i].dtype.this = "VARCHAR"}

\* The nodes of a column's lineage graph, as the walker reads them:
\* downstream (has dependents), the table of its expression (exp.Table gives
\* "" for a part the reference does not have), its name.
InnerNode == [downstream |-> TRUE,
              expression |-> [table |-> [catalog |-> "", db |-> "db", name |-> "t1"]],
              name |-> <<"x">>]

LeafNodes ==
    {[downstream |-> FALSE,
      expression |-> [table |-> [catalog |-> "", db |-> "db", name |-> "t1"]],
      name |-> <<"t1", "x">>],
     [downstream |-> FALSE,
      expression |-> [table |-> [catalog |-> "c", db |-> "", name |-> "t2"]],
      name |-> <<"y">>],
     [downstream |-> FALSE, expression |-> [table |-> NoTable], name |-> <<"1">>],
     [downstream |-> FALSE, expression |-> NoExpression, name |-> <<"z">>]}

\* Nodes node.walk() yields for one column.
MaxWalk == 3

\* What node.walk() yields: the root first; a root with nothing downstream
\* is the whole walk, otherwise the walk ends in a leaf.
Walks ==
    {w \in UNION {[1..n -> LeafNodes \cup {InnerNode}] : n \in 1..MaxWalk} :
        /\ w[1].downstream <=> Len(w) > 1
        /\ ~w[Len(w)].downstream}

\* What the lineage facility gives for the columns of a model: whether it
\* can be imported and, per column, the walk of the graph lineage() returns
\* (NoGraph when lineage() raises).
Lineages(columns) ==
    [available : BOOLEAN,
     graphs : [{columns[i].name : i \in DOMAIN columns} -> Walks \cup {NoGraph}]]

\* A lineage facility that resolves every column to one upstream column.
PlainLineage(columns) ==
    [available |-> TRUE,
     graphs |-> [n \in {columns[i].name : i \in DOMAIN columns} |->
                    <<[downstream |-> FALSE,
                       expression |-> [table |-> [catalog |-> "", db |-> "db",
                                                  name |-> "t1"]],
                       name |-> <<"t1", n>>]>>]]

\* snapshot.qualified_view_name: catalog and schema_name may be missing
\* (None or empty), the table is the name of the view.
QualifiedViewNames ==
    [catalog : {NonePart, "", "cat"}, schema_name : {NonePart, "sch"}, table : {"tbl"}]

\* Upstream snapshot ids.
ParentNames == {"p", "q"}

\* Parents of one snapshot.
MaxParents == 2

\* snapshot.parents: distinct snapshot ids, in order.
ParentLists ==
    {p \in UNION {[1..n -> [name : ParentNames]] : n \in 0..MaxParents} :
        \A i, j \in DOMAIN p : i # j => p[i] # p[j]}

\* QueryExecutionStats, or None.
ExecutionStats ==
    {None} \cup [total_rows_processed : {NoInt, 7}, total_bytes_processed : {NoInt, 9}]

\* duration_ms, or None.
Durations == {NoInt, 5}

\* The columns of the models the walker is applied to (the types play no
\* part in lineage).
LineageColumns ==
    {c \in ColumnLists : \A i \in DOMAIN c : c[i].name = "id" => c[i].dtype.this = "INT"}

\* A snapshot with one qualified name and no parents.
LineageSnapshot(is_model, model) ==
    [name |-> "a", is_model |-> is_model, model |-> model,
     qualified_view_name |-> [catalog |-> NonePart, schema_name |-> "sch",
                              table |-> "tbl"],
     parents |-> <<>>]

\* The snapshots the naming, schema and event builders are applied to.
DatasetSnapshots ==
    {[name |-> "a", is_model |-> m, model |-> mo, qualified_view_name |-> q,
      parents |-> p] :
        m \in BOOLEAN,
        mo \in {None} \cup {[columns_to_types |-> c, lineage |-> PlainLineage(c)] :
                                c \in ColumnLists},
        q \in QualifiedViewNames,
        p \in ParentLists}

\* The facets a caller passes to snapshot_to_output_dataset: none, an empty
\* dict, and dicts whose keys do and do not collide with the derived ones.
CallerFacet == [_producer |-> "caller"]

CallerFacets ==
    {None} \cup {[k \in keys |-> CallerFacet] :
                    keys \in SUBSET {"schema", "outputStatistics"}}

\* The errors the console passes to emit_snapshot_fail.
FailErrors ==
    {AuditError(n) : n \in 1..MaxAudits} \cup {StopError(s) : s \in BOOLEAN}

\* --------------------------------------------- applying the functions

\* One call: the function, its arguments besides the snapshot, its result.
Returned(fn, args, value) == [fn |-> fn, args |-> args, value |-> value]

CallTableName ==
    ret' = Returned("snapshot_to_table_name", <<>>, SnapshotToTableName(arg.snapshot))

CallSchemaFacet ==
    ret' = Returned("snapshot_to_schema_facet", <<>>, SnapshotToSchemaFacet(arg.snapshot))

CallColumnLineageFacet ==
    ret' = Returned("snapshot_to_column_lineage_facet", <<>>,
                    SnapshotToColumnLineageFacet(arg.snapshot, Namespace))

CallOutputDataset ==
    ret' = Returned("snapshot_to_output_dataset", <<>>,
                    SnapshotToOutputDataset(arg.snapshot, Namespace, None))

CallOutputDatasetWith(facets) ==
    ret' = Returned("snapshot_to_output_dataset+facets", <<facets>>,
                    SnapshotToOutputDataset(arg.snapshot, Namespace, facets))

CallInputDatasets ==
    ret' = Returned("snapshot_to_input_datasets", <<>>,
                    SnapshotToInputDatasets(arg.snapshot, Namespace))

CallEmitStart(run_id) ==
    ret' = Returned("emit_snapshot_start", <<run_id>>,
                    StartRunEvent(arg.snapshot, run_id, Namespace))

CallEmitComplete(run_id) ==
    ret' = Returned("emit_snapshot_complete", <<run_id>>,
                    CompleteRunEvent(arg.snapshot, run_id, Namespace,
                                     arg.duration_ms, arg.execution_stats))

CallEmitFail(run_id, error) ==
    ret' = Returned("emit_snapshot_fail", <<run_id, error>>,
                    FailRunEvent(arg.snapshot, run_id, Namespace, error))

\* The arguments of one series of calls.
Args(snapshot, duration_ms, execution_stats) ==
    [snapshot |-> snapshot, duration_ms |-> duration_ms,
     execution_stats |-> execution_stats]

\* The snapshots the lineage walker is applied to: models whose columns
\* have lineage graphs of every shape, with and without the facility; a
\* snapshot that is no model; a snapshot whose model is missing.
InitLineage ==
    /\ InitTracker /\ InitTime /\ InitInstall /\ InitThreads /\ InitWrapped
    /\ \/ \E c \in LineageColumns : \E l \in Lineages(c) :
            arg = Args(LineageSnapshot(TRUE, [columns_to_types |-> c, lineage |-> l]),
                       NoInt, None)
       \/ arg = Args(LineageSnapshot(FALSE, None), NoInt, None)
       \/ arg = Args(LineageSnapshot(TRUE, None), NoInt, None)
    /\ ret = NoCall

NextLineage ==
    \/ CallColumnLineageFacet /\ UNCHANGED <<tracker_vars, time_vars, arg, install_vars, thread_vars, wrapped>>
    \/ CallOutputDataset /\ UNCHANGED <<tracker_vars, time_vars, arg, install_vars, thread_vars, wrapped>>
    \/ \E r \in 1..MaxRuns :
            CallEmitStart(r) /\ UNCHANGED <<tracker_vars, time_vars, arg, install_vars, thread_vars, wrapped>>
    \/ \E r \in 1..MaxRuns :
            CallEmitComplete(r) /\ UNCHANGED <<tracker_vars, time_vars, arg, install_vars, thread_vars, wrapped>>

SpecLineage == InitLineage /\ [][NextLineage]_vars

InitDataset ==
    /\ InitTracker /\ InitTime /\ InitInstall /\ InitThreads /\ InitWrapped
    /\ arg \in {Args(s, d, e) : s \in DatasetSnapshots, d \in Durations,
                                e \in ExecutionStats}
    /\ ret = NoCall

NextDataset ==
    \/ CallTableName /\ UNCHANGED <<tracker_vars, time_vars, arg, install_vars, thread_vars, wrapped>>
    \/ CallSchemaFacet /\ UNCHANGED <<tracker_vars, time_vars, arg, install_vars, thread_vars, wrapped>>
    \/ CallInputDatasets /\ UNCHANGED <<tracker_vars, time_vars, arg, install_vars, thread_vars, wrapped>>
    \/ CallOutputDataset /\ UNCHANGED <<tracker_vars, time_vars, arg, install_vars, thread_vars, wrapped>>
    \/ \E facets \in CallerFacets :
            CallOutputDatasetWith(facets) /\ UNCHANGED <<tracker_vars, time_vars, arg, install_vars, thread_vars, wrapped>>
    \/ \E r \in 1..MaxRuns :
            CallEmitStart(r) /\ UNCHANGED <<tracker_vars, time_vars, arg, install_vars, thread_vars, wrapped>>
    \/ \E r \in 1..MaxRuns :
            CallEmitComplete(r) /\ UNCHANGED <<tracker_vars, time_vars, arg, install_vars, thread_vars, wrapped>>
    \/ \E r \in 1..MaxRuns, error \in FailErrors :
            CallEmitFail(r, error) /\ UNCHANGED <<tracker_vars, time_vars, arg, install_vars, thread_vars, wrapped>>

SpecDataset == InitDataset /\ [][NextDataset]_vars


\* ----------------------------------------------------------- worker threads

\* The snapshot worker thread t evaluates: the threads of one evaluation
\* work on different snapshots.
ThreadSnapshot(t) == [name |-> IF t = 1 THEN "a" ELSE "b"]

\* Mutant of StartRunId: the run id is read from a place the threads share,
\* which holds the id generated last.
StartRunId_shared(t) == Len(issued)

\* run_id in start_snapshot_evaluation_progress: a local of the call.
StartRunId(t) == local[t].run_id

\* Thread t moves to the statement at label.
Goto(t, label) == pc' = [pc EXCEPT ![t] = label]

\* start_snapshot_evaluation_progress, statement by statement:
\* run_id = str(uuid.uuid4())
StartGenerate(t) ==
    /\ pc[t] = "idle"
    /\ Len(issued) < MaxRuns
    /\ local' = [local EXCEPT ![t] = [run_id |-> NewRunId(issued),
                                      num_audits_failed |-> 0]]
    /\ issued' = Append(issued, ThreadSnapshot(t).name)
    /\ Goto(t, "start_put")
    /\ UNCHANGED <<active_runs, current_snapshots, events, superseded, last>>

\* self._active_runs[snapshot.name] = run_id
StartPut(t) ==
    LET old == ActiveRun(active_runs, ThreadSnapshot(t).name)
    IN  /\ pc[t] = "start_put"
        /\ superseded' = IF old # NoRun THEN superseded \cup {old} ELSE superseded
        /\ active_runs' = ActivePut(active_runs, ThreadSnapshot(t).name, StartRunId(t))
        /\ Goto(t, "start_store")
        /\ UNCHANGED <<current_snapshots, events, issued, last, local>>

\* self._current_snapshots[snapshot.name] = snapshot
StartStore(t) ==
    /\ pc[t] = "start_store"
    /\ current_snapshots' = SnapshotPut(current_snapshots, ThreadSnapshot(t))
    /\ Goto(t, "start_emit")
    /\ UNCHANGED <<active_runs, events, issued, superseded, last, local>>

\* self._emitter.emit_snapshot_start(snapshot=snapshot, run_id=run_id), the
\* sink accepting the event, and the return of the callback.
StartEmit(t) ==
    /\ pc[t] = "start_emit"
    /\ events' = Append(events, StartEvent(ThreadSnapshot(t), StartRunId(t)))
    /\ last' = Call("start_snapshot_evaluation_progress", ThreadSnapshot(t).name, FALSE)
    /\ Goto(t, "evaluating")
    /\ UNCHANGED <<active_runs, current_snapshots, issued, superseded, local>>

\* update_snapshot_evaluation_progress, statement by statement:
\* run_id = self._active_runs.pop(snapshot.name, None)
UpdatePop(t, num_audits_failed) ==
    /\ pc[t] = "evaluating"
    /\ local' = [local EXCEPT ![t] =
                    [run_id |-> ActiveRun(active_runs, ThreadSnapshot(t).name),
                     num_audits_failed |-> num_audits_failed]]
    /\ active_runs' = ActivePop(active_runs, ThreadSnapshot(t).name)
    /\ Goto(t, "update_emit")
    /\ UNCHANGED <<current_snapshots, events, issued, superseded, last>>

\* if run_id: emit_snapshot_fail(...) or emit_snapshot_complete(...), the
\* sink accepting the event, and the return of the callback.
UpdateEmit(t) ==
    /\ pc[t] = "update_emit"
    /\ events' = IF local[t].run_id # NoRun
                 THEN Append(events, UpdateEvent(ThreadSnapshot(t), local[t].run_id,
                                                 local[t].num_audits_failed))
                 ELSE events
    /\ last' = Call("update_snapshot_evaluation_progress", ThreadSnapshot(t).name, FALSE)
    /\ Goto(t, "idle")
    /\ UNCHANGED <<active_runs, current_snapshots, issued, superseded, local>>

\* The worker threads run their callbacks one statement at a time, in any
\* interleaving; a dict operation is one step.
NextThreads ==
    \/ \E t \in Threads :
            StartGenerate(t) /\ UNCHANGED <<time_vars, call_vars, install_vars, wrapped>>
    \/ \E t \in Threads :
            StartPut(t) /\ UNCHANGED <<time_vars, call_vars, install_vars, wrapped>>
    \/ \E t \in Threads :
            StartStore(t) /\ UNCHANGED <<time_vars, call_vars, install_vars, wrapped>>
    \/ \E t \in Threads :
            StartEmit(t) /\ UNCHANGED <<time_vars, call_vars, install_vars, wrapped>>
    \/ \E t \in Threads, n \in 0..MaxAudits :
            UpdatePop(t, n) /\ UNCHANGED <<time_vars, call_vars, install_vars, wrapped>>
    \/ \E t \in Threads :
            UpdateEmit(t) /\ UNCHANGED <<time_vars, call_vars, install_vars, wrapped>>

SpecThreads == Init /\ [][NextThreads]_vars

\* ------------------------------------------------------------------ install

\* The environment variables install() reads.
EnvNames == {"OPENLINEAGE_URL", "OPENLINEAGE_NAMESPACE", "OPENLINEAGE_API_KEY"}

\* The value each variable has when it is set.
EnvValue ==
    [OPENLINEAGE_URL |-> "http://env", OPENLINEAGE_NAMESPACE |-> "env_ns",
     OPENLINEAGE_API_KEY |-> "env_key"]

\* os.environ, as far as install() reads it: any of the variables set.
Environs == {[k \in set |-> EnvValue[k]] : set \in SUBSET EnvNames}

\* os.environ.get(key, default); default None is NonePart.
EnvGet(env, key, default) == IF key \in DOMAIN env THEN env[key] ELSE default

\* a or b, for strings and None.
Or(a, b) == IF Truthy(a) THEN a ELSE b

\* An argument the caller did not pass.
NotPassed == "<not passed>"

\* The defaults of install's parameters: url=None, namespace="sqlmesh",
\* api_key=None.
InstallDefaults == [url |-> NonePart, namespace |-> "sqlmesh", api_key |-> NonePart]

\* The parameter as the body of install sees it.
Bound(call, param) ==
    IF call[param] = NotPassed THEN InstallDefaults[param] ELSE call[param]

\* The calls of install: each argument left out, passed empty, or passed
\* with a value.
InstallCalls ==
    [url : {NotPassed, "", "http://arg"},
     namespace : {NotPassed, "", "arg_ns"},
     api_key : {NotPassed, "arg_key"}]

\* Mutant of ResolvedUrl: a local server when no URL is given.
ResolvedUrl_localhost(call, env) ==
    Or(Bound(call, "url"), EnvGet(env, "OPENLINEAGE_URL", "http://localhost:5000"))

\* resolved_url = url or os.environ.get("OPENLINEAGE_URL")
ResolvedUrl(call, env) ==
    Or(Bound(call, "url"), EnvGet(env, "OPENLINEAGE_URL", NonePart))

\* resolved_namespace = namespace or os.environ.get("OPENLINEAGE_NAMESPACE", "sqlmesh")
ResolvedNamespace(call, env) ==
    Or(Bound(call, "namespace"), EnvGet(env, "OPENLINEAGE_NAMESPACE", "sqlmesh"))

\* resolved_api_key = api_key or os.environ.get("OPENLINEAGE_API_KEY")
ResolvedApiKey(call, env) ==
    Or(Bound(call, "api_key"), EnvGet(env, "OPENLINEAGE_API_KEY", NonePart))

\* Mutant of AlreadyInstalled: the flag is not looked at.
AlreadyInstalled_never(flag) == FALSE

\* if _installed: return
AlreadyInstalled(flag) == flag

\* OpenLineageConsole(wrapped=default_console, url=..., namespace=...,
\* api_key=...): the console and what its emitter was constructed with.
Wrapper(call, env) ==
    [wrapped |-> "create_console()",
     url |-> ResolvedUrl(call, env),
     namespace |-> ResolvedNamespace(call, env),
     api_key |-> ResolvedApiKey(call, env)]

\* The calls install makes that can raise for reasons of their own: the
\* constructor of the console (it builds the OpenLineage client) and
\* set_console; "-" when none does.
InstallFailures == {"-", "OpenLineageConsole", "set_console"}

\* Wrappers constructed in one process.
MaxWrappers == 2

\* install(url, namespace, api_key); fails is the call that raises.
Install(call, fails) ==
    IF AlreadyInstalled(installed)
    THEN /\ fails = "-"
         /\ ret' = Returned("install", <<call>>, "returned")
         /\ UNCHANGED <<installed, wrappers, consoles>>
    ELSE IF ~Truthy(ResolvedUrl(call, environ))
    THEN /\ fails = "-"
         /\ ret' = Returned("install", <<call>>, "ValueError")
         /\ UNCHANGED <<installed, wrappers, consoles>>
    ELSE IF fails = "OpenLineageConsole"
    THEN /\ ret' = Returned("install", <<call>>, "raised")
         /\ UNCHANGED <<installed, wrappers, consoles>>
    ELSE IF fails = "set_console"
    THEN /\ Len(wrappers) < MaxWrappers
         /\ wrappers' = Append(wrappers, Wrapper(call, environ))
         /\ ret' = Returned("install", <<call>>, "raised")
         /\ UNCHANGED <<installed, consoles>>
    ELSE /\ Len(wrappers) < MaxWrappers
         /\ wrappers' = Append(wrappers, Wrapper(call, environ))
         /\ consoles' = Append(consoles, Wrapper(call, environ))
         /\ installed' = TRUE
         /\ ret' = Returned("install", <<call>>, "returned")

\* is_installed()
IsInstalled == ret' = Returned("is_installed", <<>>, installed)

\* A process whose environment is any of Environs and that calls install
\* and is_installed in any order.
InitInstallCalls ==
    /\ InitTracker /\ InitTime /\ InitCall /\ InitThreads /\ InitWrapped
    /\ installed = FALSE
    /\ environ \in Environs
    /\ wrappers = <<>>
    /\ consoles = <<>>

NextInstall ==
    \/ \E call \in InstallCalls, fails \in InstallFailures :
            Install(call, fails)
            /\ UNCHANGED <<tracker_vars, time_vars, arg, environ, thread_vars, wrapped>>
    \/ IsInstalled
            /\ UNCHANGED <<tracker_vars, time_vars, arg, install_vars, thread_vars, wrapped>>

SpecInstall == InitInstallCalls /\ [][NextInstall]_vars

\* ------------------------------------------------------- reading the log

CountWhere(log, Test(_)) == Cardinality({i \in DOMAIN log : Test(log[i])})

Starts(log, r) == CountWhere(log, LAMBDA ev : ev.eventType = "START" /\ ev.runId = r)

Completes(log, r) == CountWhere(log, LAMBDA ev : ev.eventType = "COMPLETE" /\ ev.runId = r)

Fails(log, r) == CountWhere(log, LAMBDA ev : ev.eventType = "FAIL" /\ ev.runId = r)

Terminals(log, r) == CountWhere(log, LAMBDA ev : IsTerminal(ev) /\ ev.runId = r)

\* The events of log for run id r.
EventsOf(log, r) == {log[i] : i \in {j \in DOMAIN log : log[j].runId = r}}

\* The events a step appended to the log.
Emitted == SubSeq(events', Len(events) + 1, Len(events'))

\* The text holds the fragment / the decimal digits of n.
Contains(text, fragment) == \E i \in DOMAIN text : text[i] = fragment

Mentions(text, n) ==
    \E i \in DOMAIN text :
        /\ i + Len(IntToStr(n)) - 1 <= Len(text)
        /\ SubSeq(text, i, i + Len(IntToStr(n)) - 1) = IntToStr(n)

RunIds == 1..Len(issued)

StopReturned == last'.op = "stop_evaluation_progress" /\ ~last'.raised

\* The step is a call of the method op.
Called(op) == last'.op = op

\* The snapshots a start or update step can have been called with.
CalledWith == {s \in Snapshots : s.name = last'.name}

\* ------------------------------------------------------------------ claims

\* C1: every run that reached start_snapshot_evaluation_progress and is
\* still active when stop_evaluation_progress is called has exactly one
\* terminal event (COMPLETE or FAIL) in the log once that call has returned:
\* the sweep emits the missing terminal event, and only that one.
C1_SweepLeavesOneTerminalPerRun ==
    [][StopReturned =>
        \A i \in DOMAIN active_runs : Terminals(events', active_runs[i].run) = 1]_vars

\* C2: an update with zero failed audits of a started snapshot, both
\* emissions accepted, leaves exactly one START and exactly one COMPLETE
\* for the run id generated at start, both naming the snapshot.
C2_StartThenUpdateEmitsOnePair ==
    [][Called("update_snapshot_evaluation_progress") => \A s \in CalledWith :
        LET r == ActiveRun(active_runs, s.name)
        IN  (/\ UpdateSnapshotEvaluationProgress(s, 0, TRUE)
             /\ r # NoRun
             /\ Starts(events, r) >= 1)
            => /\ Starts(events', r) = 1
               /\ Completes(events', r) = 1
               /\ Emitted = <<CompleteEvent(s, r)>>
               /\ \A ev \in EventsOf(events', r) : ev.job = s.name]_vars

C2_Witness ==
    /\ last.op = "update_snapshot_evaluation_progress"
    /\ ~last.raised
    /\ events # <<>>
    /\ LET ev == events[Len(events)]
       IN  /\ ev.eventType = "COMPLETE"
           /\ ev.job = last.name
           /\ Starts(events, ev.runId) = 1
           /\ Completes(events, ev.runId) = 1

\* C3: a snapshot started (START accepted) and not updated before
\* stop_evaluation_progress(success = False), whose FAIL the sink accepts in
\* that call, has exactly one START and exactly one FAIL in the log, the FAIL
\* with its run id and a message containing "interrupted".
C3_InterruptedRunHasOneFail ==
    [][Called("stop_evaluation_progress") => \A k \in 0..Len(active_runs) :
        StopEvaluationProgress(FALSE, k) =>
            \A i \in DOMAIN active_runs :
                LET r == active_runs[i].run
                IN  ((k = 0 \/ i < k) /\ Starts(events, r) >= 1)
                    => /\ Starts(events', r) = 1
                       /\ Fails(events', r) = 1
                       /\ \A ev \in EventsOf(events', r) :
                            ev.eventType = "FAIL" => Contains(ev.error, "interrupted")]_vars

\* C4: an update of an active snapshot emits FAIL, with a message that
\* mentions num_audits_failed, when num_audits_failed > 0, and COMPLETE when
\* num_audits_failed = 0.
C4_AuditCountDecidesTerminal ==
    [][Called("update_snapshot_evaluation_progress") =>
       \A s \in CalledWith, n \in 0..MaxAudits :
        (UpdateSnapshotEvaluationProgress(s, n, TRUE) /\ IsActive(active_runs, s.name))
        => /\ Len(Emitted) = 1
           /\ Emitted[1].runId = ActiveRun(active_runs, s.name)
           /\ Emitted[1].job = s.name
           /\ n > 0 => /\ Emitted[1].eventType = "FAIL"
                       /\ Mentions(Emitted[1].error, n)
                       /\ Contains(Emitted[1].error, "Audit failed: ")
           /\ n = 0 => Emitted[1].eventType = "COMPLETE"]_vars

C4_Witness ==
    /\ last.op = "update_snapshot_evaluation_progress"
    /\ events # <<>>
    /\ events[Len(events)].eventType = "FAIL"
    /\ events[Len(events)].job = last.name
    /\ events[Len(events)].error = <<"Audit failed: ", "2", " audit(s) failed">>

\* C5: after any sequence of callbacks no run id has more than one START in
\* the log and none has more than one terminal event (a START the sink
\* rejected is not held against "exactly one START").
C5_OneStartOneTerminalPerRunId ==
    \A r \in RunIds : Starts(events, r) <= 1 /\ Terminals(events, r) <= 1

\* C6: an update for a name with no active run emits nothing, does not
\* raise, and leaves _active_runs and _current_snapshots as they were.
C6_UpdateWithoutRunIsNoOp ==
    [][Called("update_snapshot_evaluation_progress") =>
       \A s \in CalledWith, n \in 0..MaxAudits, ok \in BOOLEAN :
        (UpdateSnapshotEvaluationProgress(s, n, ok) /\ ~IsActive(active_runs, s.name))
        => /\ events' = events
           /\ ~last'.raised
           /\ active_runs' = active_runs
           /\ current_snapshots' = current_snapshots]_vars

C6_Witness ==
    /\ last.op = "update_snapshot_evaluation_progress"
    /\ ~last.raised
    /\ ~IsActive(active_runs, last.name)
    /\ active_runs # <<>>
    /\ \A i \in DOMAIN events : ~(IsTerminal(events[i]) /\ events[i].job = last.name)

\* C7: whenever a call of stop_evaluation_progress has ended, however its
\* sweep went, _active_runs and _current_snapshots are both empty.
C7_StopClearsUnconditionally ==
    last.op = "stop_evaluation_progress"
        => active_runs = <<>> /\ current_snapshots = NoSnapshots

\* C8: a callback whose emit raised leaves _active_runs and
\* _current_snapshots exactly as the same callback leaves them when the
\* emission succeeds.
C8_StateAdvancesWhenEmitRaises ==
    [][last'.raised =>
        \/ /\ last'.op = "start_snapshot_evaluation_progress"
           /\ active_runs' = ActivePut(active_runs, last'.name, Len(issued) + 1)
           /\ \E s \in CalledWith : current_snapshots' = SnapshotPut(current_snapshots, s)
        \/ /\ last'.op = "update_snapshot_evaluation_progress"
           /\ active_runs' = ActivePop(active_runs, last'.name)
           /\ current_snapshots' = current_snapshots
        \/ /\ last'.op = "stop_evaluation_progress"
           /\ active_runs' = <<>>
           /\ current_snapshots' = NoSnapshots]_vars

\* C9: start_evaluation_progress stores every snapshot of the batch under
\* its name, keeps the other stored snapshots, emits nothing and leaves
\* _active_runs as it was.
C9_PhaseStartOnlyStoresSnapshots ==
    [][Called("start_evaluation_progress") => \A batch \in Batches :
        StartEvaluationProgress(batch)
        => /\ events' = events
           /\ active_runs' = active_runs
           /\ ~last'.raised
           /\ \A i \in DOMAIN batch :
                /\ batch[i].name \in DOMAIN current_snapshots'
                /\ current_snapshots'[batch[i].name] = batch[i]
           /\ \A n \in DOMAIN current_snapshots :
                /\ n \in DOMAIN current_snapshots'
                /\ (\A i \in DOMAIN batch : batch[i].name # n)
                    => current_snapshots'[n] = current_snapshots[n]
           /\ DOMAIN current_snapshots' =
                DOMAIN current_snapshots \cup {batch[i].name : i \in DOMAIN batch}]_vars

C9_Witness ==
    /\ last.op = "start_evaluation_progress"
    /\ active_runs # <<>>
    /\ \E n \in DOMAIN current_snapshots : ~IsActive(active_runs, n)

C11_OneActiveRunPerNameFreshIds ==
    /\ \A i, j \in DOMAIN active_runs :
        i # j => /\ active_runs[i].name # active_runs[j].name
                 /\ active_runs[i].run # active_runs[j].run
    /\ \A i \in DOMAIN active_runs :
        /\ active_runs[i].run \in RunIds
        /\ issued[active_runs[i].run] = active_runs[i].name
    /\ \A i, j \in DOMAIN events :
        (i # j /\ events[i].eventType = "START" /\ events[j].eventType = "START")
            => events[i].runId # events[j].runId

\* A name started, ended by an update and started again: two START events
\* of the same job with a terminal event between them.
C11_Witness ==
    \E i, j, k \in DOMAIN events :
        /\ i < j /\ j < k
        /\ events[i].eventType = "START" /\ events[k].eventType = "START"
        /\ events[i].job = events[k].job
        /\ IsTerminal(events[j]) /\ events[j].runId = events[i].runId
        /\ IsActive(active_runs, events[k].job)

Returns(fn) == ret.fn = fn

\* C13: every FAIL event emit_snapshot_fail builds, for the message of an
\* audit failure in update as for the message of the phase-stop sweep,
\* carries the run id it was given, a run facet errorMessage with that
\* message and the language tag "python" and nothing else, no input dataset
\* and no output dataset, whatever parents and columns the snapshot has; it
\* is the FAIL event the tracker logs, for the same run id, job and message.
C13_FailCarriesErrorAndNoDatasets ==
    Returns("emit_snapshot_fail") =>
        LET ev == ret.value
            run_id == ret.args[1]
            error == ret.args[2]
        IN  /\ ev.eventType = "FAIL"
            /\ ev.run.runId = run_id
            /\ DOMAIN ev.run.facets = {"errorMessage"}
            /\ ev.run.facets.errorMessage.message = error
            /\ ev.run.facets.errorMessage.programmingLanguage = "python"
            /\ ev.inputs = <<>>
            /\ ev.outputs = <<>>
            /\ ev.job.name = arg.snapshot.name
            /\ FailEvent(arg.snapshot, run_id, error) =
                [eventType |-> ev.eventType, runId |-> ev.run.runId,
                 job |-> ev.job.name, error |-> ev.run.facets.errorMessage.message]

\* A FAIL of the sweep for a model with typed columns and parents, whose
\* START has one output and inputs.
C13_Witness ==
    /\ Returns("emit_snapshot_fail")
    /\ ret.args[2] = StopError(FALSE)
    /\ HasTypedColumns(arg.snapshot)
    /\ arg.snapshot.parents # <<>>
    /\ StartRunEvent(arg.snapshot, ret.args[1], Namespace).outputs # <<>>
    /\ ret.value.outputs = <<>>

\* The name parts of a qualified view name, and the places of those that
\* are neither missing nor empty.
NameParts(q) == <<q.catalog, q.schema_name, q.table>>

PresentAt(parts) == {i \in DOMAIN parts : parts[i] # "" /\ parts[i] # NonePart}

\* The k-th smallest element of a set of numbers.
Nth(set, k) == CHOOSE i \in set : Cardinality({x \in set : x <= i}) = k

C20_SchemaFacetFollowsColumns ==
    LET s == arg.snapshot
        typed == s.is_model /\ s.model # None /\ s.model.columns_to_types # <<>>
    IN  /\ Returns("snapshot_to_schema_facet") =>
            IF typed
            THEN /\ ret.value # None
                 /\ Len(ret.value.fields) = Len(s.model.columns_to_types)
                 /\ \A i \in DOMAIN s.model.columns_to_types :
                        /\ ret.value.fields[i].name = s.model.columns_to_types[i].name
                        /\ ret.value.fields[i].type = s.model.columns_to_types[i].dtype.this
            ELSE ret.value = None
        /\ (Returns("snapshot_to_output_dataset") /\ ret.value # None) =>
            /\ typed <=> "schema" \in DOMAIN ret.value.facets
            /\ typed => ret.value.facets.schema = SnapshotToSchemaFacet(s)

\* Two columns declared name first, id second: two fields in that order.
C20_Witness ==
    /\ Returns("snapshot_to_schema_facet")
    /\ ret.value # None
    /\ Len(ret.value.fields) = 2
    /\ ret.value.fields[1] = [name |-> "name", type |-> "VARCHAR"]
    /\ ret.value.fields[2] = [name |-> "id", type |-> "INT"]

\* ---- reading a column-lineage facet

\* The entries of a facet, in order; none for None.
Entries(facet) == IF facet = None THEN <<>> ELSE facet.fields

HasEntry(facet, column) ==
    \E i \in DOMAIN Entries(facet) : Entries(facet)[i].column = column

\* The input fields listed for a column that has an entry.
InputsOf(facet, column) ==
    LET i == CHOOSE j \in DOMAIN Entries(facet) : Entries(facet)[j].column = column
    IN  Entries(facet)[i].fields.inputFields

\* The places of a walk that are references to an upstream table: nothing
\* downstream, and a table in the expression.
LeafRefsAt(walk) ==
    {i \in DOMAIN walk :
        /\ ~walk[i].downstream
        /\ walk[i].expression.table # None
        /\ walk[i].expression.table # NoTable}

\* The walk cannot be read to its end: there is no graph, or a leaf of it
\* has no expression.
Unreadable(walk) ==
    \/ walk = NoGraph
    \/ \E i \in DOMAIN walk : ~walk[i].downstream /\ walk[i].expression.table = None

\* The upstream (table, column) a leaf names, as the facet writes it.
UpstreamOf(node) ==
    IF node.expression.table.name = "t1"
    THEN [namespace |-> Namespace, name |-> <<"db", ".", "t1">>, field |-> "x"]
    ELSE [namespace |-> Namespace, name |-> <<"c", ".", "t2">>, field |-> "y"]

\* The snapshot is a model with typed columns and a lineage facility.
Walked == HasTypedColumns(arg.snapshot) /\ arg.snapshot.model.lineage.available

\* The column names of the snapshot and the walk of a column.
ColumnsOf(snapshot) ==
    {snapshot.model.columns_to_types[i].name : i \in DOMAIN snapshot.model.columns_to_types}

WalkOf(column) == arg.snapshot.model.lineage.graphs[column]

\* C14: the list of a column holds one entry per qualifying leaf of the
\* column's walk, in walk order and without deduplication: a column with
\* two qualifying leaves for the same upstream (table, column) has both
\* entries.
C14_AllLeavesInWalkOrder ==
    (Returns("snapshot_to_column_lineage_facet") /\ Walked) =>
        \A c \in ColumnsOf(arg.snapshot) :
            HasEntry(ret.value, c) =>
                LET walk == WalkOf(c)
                    at == LeafRefsAt(walk)
                    inputs == InputsOf(ret.value, c)
                IN  /\ Len(inputs) = Cardinality(at)
                    /\ \A k \in 1..Cardinality(at) :
                        inputs[k] = UpstreamOf(walk[Nth(at, k)])

\* A column whose walk has two leaves for db.t1.x: two equal entries.
C14_Witness ==
    /\ Returns("snapshot_to_column_lineage_facet")
    /\ Walked
    /\ \E c \in ColumnsOf(arg.snapshot) :
        /\ HasEntry(ret.value, c)
        /\ Len(InputsOf(ret.value, c)) = 2
        /\ InputsOf(ret.value, c)[1] = InputsOf(ret.value, c)[2]
        /\ InputsOf(ret.value, c)[1].field = "x"

\* C15: a column whose traversal or extraction raises has no entry; each
\* of its sibling columns that has a qualifying leaf and does not raise is
\* still present, with its full list; the call returns a facet or None.
C15_ColumnErrorsAreIsolated ==
    (Returns("snapshot_to_column_lineage_facet") /\ Walked) =>
        \A c \in ColumnsOf(arg.snapshot) :
            /\ Unreadable(WalkOf(c)) => ~HasEntry(ret.value, c)
            /\ (~Unreadable(WalkOf(c)) /\ LeafRefsAt(WalkOf(c)) # {})
                => /\ HasEntry(ret.value, c)
                   /\ Len(InputsOf(ret.value, c)) = Cardinality(LeafRefsAt(WalkOf(c)))

\* Two columns: the first raises in the middle of its walk, after a
\* qualifying leaf; the second is present.
C15_Witness ==
    /\ Returns("snapshot_to_column_lineage_facet")
    /\ Walked
    /\ Len(arg.snapshot.model.columns_to_types) = 2
    /\ LET first == arg.snapshot.model.columns_to_types[1].name
           second == arg.snapshot.model.columns_to_types[2].name
       IN  /\ WalkOf(first) # NoGraph
           /\ Unreadable(WalkOf(first))
           /\ LeafRefsAt(WalkOf(first)) # {}
           /\ ~HasEntry(ret.value, first)
           /\ HasEntry(ret.value, second)

\* C16: the result never maps a column to an empty list: a column with no
\* qualifying reference has no entry, and when no column has an entry the
\* result is None, not a facet without fields.
C16_NoEmptyListNoEmptyFacet ==
    Returns("snapshot_to_column_lineage_facet") =>
        /\ ret.value # None =>
            /\ ret.value.fields # <<>>
            /\ \A i \in DOMAIN ret.value.fields :
                ret.value.fields[i].fields.inputFields # <<>>
        /\ Walked => \A c \in ColumnsOf(arg.snapshot) :
            (~Unreadable(WalkOf(c)) /\ LeafRefsAt(WalkOf(c)) = {})
                => ~HasEntry(ret.value, c)
        /\ (Walked /\ \A c \in ColumnsOf(arg.snapshot) :
                Unreadable(WalkOf(c)) \/ LeafRefsAt(WalkOf(c)) = {})
            => ret.value = None

\* Two readable columns, one with a qualifying leaf and one whose only leaf
\* names no table: a facet with the first column only.
C16_Witness ==
    /\ Returns("snapshot_to_column_lineage_facet")
    /\ Walked
    /\ ret.value # None
    /\ Len(ret.value.fields) = 1
    /\ \E c \in ColumnsOf(arg.snapshot) :
        /\ ~Unreadable(WalkOf(c))
        /\ LeafRefsAt(WalkOf(c)) = {}
        /\ ~HasEntry(ret.value, c)

\* The snapshot is a model with typed columns whose lineage facility cannot
\* be imported.
Fallback == HasTypedColumns(arg.snapshot) /\ ~arg.snapshot.model.lineage.available

\* The dataset is built, named, and carries the schema facet only.
BuiltWithoutLineage(dataset) ==
    /\ dataset # None
    /\ dataset.name = SnapshotToTableName(arg.snapshot)
    /\ dataset.facets # None
    /\ DOMAIN dataset.facets = {"schema"}

\* C17: when the lineage facility is unavailable (its import raises, before
\* any column is processed) the walker returns None, and the callers get
\* their results as without lineage: the output dataset is built, and the
\* START and COMPLETE events carry that one output, with no columnLineage
\* facet.
C17_FacilityFailureMeansNoLineage ==
    Fallback =>
        /\ Returns("snapshot_to_column_lineage_facet") => ret.value = None
        /\ Returns("snapshot_to_output_dataset") => BuiltWithoutLineage(ret.value)
        /\ Returns("emit_snapshot_start") =>
            /\ ret.value.eventType = "START"
            /\ Len(ret.value.outputs) = 1
            /\ BuiltWithoutLineage(ret.value.outputs[1])
        /\ Returns("emit_snapshot_complete") =>
            /\ ret.value.eventType = "COMPLETE"
            /\ Len(ret.value.outputs) = 1
            /\ BuiltWithoutLineage(ret.value.outputs[1])

\* A COMPLETE built for a model with two columns, each with a readable walk
\* and a qualifying leaf, while the facility cannot be imported.
C17_Witness ==
    /\ Returns("emit_snapshot_complete")
    /\ Fallback
    /\ Len(arg.snapshot.model.columns_to_types) = 2
    /\ \A c \in ColumnsOf(arg.snapshot) :
        ~Unreadable(WalkOf(c)) /\ LeafRefsAt(WalkOf(c)) # {}
    /\ Len(ret.value.outputs) = 1

\* The column-lineage facet of the outputs of an event, None when the event
\* has no output or the output has no such facet.
LineageIn(outputs) ==
    IF outputs = <<>> THEN None
    ELSE IF "columnLineage" \in DOMAIN outputs[1].facets
         THEN outputs[1].facets.columnLineage
         ELSE None

C21_NonModelHasNoOutput ==
    ~arg.snapshot.is_model =>
        /\ Returns("snapshot_to_output_dataset") => ret.value = None
        /\ Returns("emit_snapshot_start") =>
            /\ ret.value.eventType = "START"
            /\ ret.value.run.runId = ret.args[1]
            /\ ret.value.job.name = arg.snapshot.name
            /\ ret.value.outputs = <<>>
        /\ Returns("emit_snapshot_complete") =>
            /\ ret.value.eventType = "COMPLETE"
            /\ ret.value.run.runId = ret.args[1]
            /\ ret.value.job.name = arg.snapshot.name
            /\ ret.value.outputs = <<>>

\* A COMPLETE with statistics for a snapshot that is no model although it
\* has typed columns and parents.
C21_Witness ==
    /\ Returns("emit_snapshot_complete")
    /\ ~arg.snapshot.is_model
    /\ arg.snapshot.model # None
    /\ arg.snapshot.parents # <<>>
    /\ arg.execution_stats # None
    /\ ret.value.outputs = <<>>


\* The facets of a dataset as a dict: empty when the dataset has none.
FacetsOf(dataset) == IF dataset.facets = None THEN EmptyDict ELSE dataset.facets

\* The facets snapshot_to_output_dataset derives for the snapshot by itself.
DerivedKeys(snapshot) ==
    {k \in {"schema"} : SnapshotToSchemaFacet(snapshot) # None}
        \cup {k \in {"columnLineage"} :
                SnapshotToColumnLineageFacet(snapshot, Namespace) # None}

DerivedFacet(snapshot, key) ==
    IF key = "schema" THEN SnapshotToSchemaFacet(snapshot)
    ELSE SnapshotToColumnLineageFacet(snapshot, Namespace)

\* The keys a caller supplies.
SuppliedKeys(facets) == IF facets = None THEN {} ELSE DOMAIN facets

\* The statistics facet COMPLETE supplies, when the row count is known.
RowsKnown ==
    arg.execution_stats # None /\ arg.execution_stats.total_rows_processed # NoInt

\* C22: the facets of the output dataset of a model are the derived schema
\* and column-lineage facets merged with the caller's: the caller's value on
\* every key it supplies, the derived value on every other derived key, and
\* no further key. The output of START has no statistics facet; the output of
\* COMPLETE has the derived facets and, when the row count is known, the
\* statistics facet with that count.
C22_CallerFacetsWinDerivedKept ==
    /\ (Returns("snapshot_to_output_dataset+facets") /\ arg.snapshot.is_model) =>
        LET got == FacetsOf(ret.value)
            supplied == ret.args[1]
        IN  /\ DOMAIN got = DerivedKeys(arg.snapshot) \cup SuppliedKeys(supplied)
            /\ \A k \in SuppliedKeys(supplied) : got[k] = supplied[k]
            /\ \A k \in DerivedKeys(arg.snapshot) \ SuppliedKeys(supplied) :
                got[k] = DerivedFacet(arg.snapshot, k)
    /\ (Returns("emit_snapshot_start") /\ arg.snapshot.is_model) =>
        /\ Len(ret.value.outputs) = 1
        /\ DOMAIN FacetsOf(ret.value.outputs[1]) = DerivedKeys(arg.snapshot)
        /\ "outputStatistics" \notin DOMAIN FacetsOf(ret.value.outputs[1])
    /\ (Returns("emit_snapshot_complete") /\ arg.snapshot.is_model) =>
        /\ Len(ret.value.outputs) = 1
        /\ LET got == FacetsOf(ret.value.outputs[1])
           IN  /\ DOMAIN got = DerivedKeys(arg.snapshot)
                        \cup {k \in {"outputStatistics"} : RowsKnown}
               /\ \A k \in DerivedKeys(arg.snapshot) :
                    got[k] = DerivedFacet(arg.snapshot, k)
               /\ RowsKnown =>
                    got.outputStatistics.rowCount =
                        arg.execution_stats.total_rows_processed

\* A caller's schema facet replaces the derived one of a typed model while
\* the derived column lineage is kept and the caller's statistics are added.
C22_Witness ==
    /\ Returns("snapshot_to_output_dataset+facets")
    /\ arg.snapshot.is_model
    /\ DerivedKeys(arg.snapshot) = {"schema", "columnLineage"}
    /\ DOMAIN ret.args[1] = {"schema", "outputStatistics"}
    /\ ret.value.facets.schema = CallerFacet
    /\ ret.value.facets.schema # SnapshotToSchemaFacet(arg.snapshot)
    /\ DOMAIN ret.value.facets = {"schema", "columnLineage", "outputStatistics"}


\* C23: the input datasets of a snapshot are one reference per parent, in the
\* order of the parents, each holding the configured namespace and the
\* parent's name and nothing else; without parents the list is empty; the
\* inputs of the START event are this list.
C23_OneBareInputPerParentInOrder ==
    /\ Returns("snapshot_to_input_datasets") =>
        /\ Len(ret.value) = Len(arg.snapshot.parents)
        /\ \A i \in 1..Len(arg.snapshot.parents) :
            /\ DOMAIN ret.value[i] = {"namespace", "name"}
            /\ ret.value[i].namespace = Namespace
            /\ ret.value[i].name = arg.snapshot.parents[i].name
        /\ arg.snapshot.parents = <<>> => ret.value = <<>>
    /\ Returns("emit_snapshot_start") =>
        /\ Len(ret.value.inputs) = Len(arg.snapshot.parents)
        /\ \A i \in 1..Len(arg.snapshot.parents) :
            ret.value.inputs[i] =
                [namespace |-> Namespace, name |-> arg.snapshot.parents[i].name]

\* A START for a snapshot whose parents are q then p: its inputs are q then p.
C23_Witness ==
    /\ Returns("emit_snapshot_start")
    /\ Len(arg.snapshot.parents) = 2
    /\ arg.snapshot.parents[1].name = "q"
    /\ ret.value.inputs[1].name = "q"
    /\ ret.value.inputs[2].name = "p"


\* The two upstream columns the walks can name, as (table name, column).
T1x == [namespace |-> Namespace, name |-> <<"db", ".", "t1">>, field |-> "x"]

T2y == [namespace |-> Namespace, name |-> <<"c", ".", "t2">>, field |-> "y"]

\* The node at place i of the walk is a leaf whose expression has the table
\* with these parts.
LeafOfTable(walk, i, catalog, db, name) ==
    /\ ~walk[i].downstream
    /\ walk[i].expression.table = [catalog |-> catalog, db |-> db, name |-> name]

\* The reference is among the inputs the facet lists for the column.
Listed(facet, column, ref) ==
    /\ HasEntry(facet, column)
    /\ \E k \in DOMAIN InputsOf(facet, column) : InputsOf(facet, column)[k] = ref

\* C30: for a column whose walk can be read, an upstream (table, column) is
\* listed exactly when some node of the walk has nothing downstream and an
\* expression with that table; nodes with downstream nodes and leaves
\* without a table add nothing, so the column has no entry when no node
\* qualifies; the table is named by its non-empty catalog, db and name parts
\* joined with '.'.
C30_LeafWithTableIffListed ==
    (Returns("snapshot_to_column_lineage_facet") /\ Walked) =>
        \A c \in ColumnsOf(arg.snapshot) :
            ~Unreadable(WalkOf(c)) =>
                LET walk == WalkOf(c)
                IN  /\ Listed(ret.value, c, T1x) <=>
                            \E i \in DOMAIN walk : LeafOfTable(walk, i, "", "db", "t1")
                    /\ Listed(ret.value, c, T2y) <=>
                            \E i \in DOMAIN walk : LeafOfTable(walk, i, "c", "", "t2")
                    /\ HasEntry(ret.value, c) =>
                        \A k \in DOMAIN InputsOf(ret.value, c) :
                            InputsOf(ret.value, c)[k] \in {T1x, T2y}
                    /\ HasEntry(ret.value, c) <=>
                            (Listed(ret.value, c, T1x) \/ Listed(ret.value, c, T2y))

\* A walk of an inner node with the table db.t1, a leaf without a table and
\* the leaf c.t2: the column lists c.t2.y and nothing else.
C30_Witness ==
    /\ Returns("snapshot_to_column_lineage_facet")
    /\ Walked
    /\ \E c \in ColumnsOf(arg.snapshot) :
        /\ Len(WalkOf(c)) = 3
        /\ WalkOf(c)[1] = InnerNode
        /\ WalkOf(c)[2].expression.table = NoTable
        /\ HasEntry(ret.value, c)
        /\ InputsOf(ret.value, c) = <<T2y>>


\* The two messages of the sweep, in the fragments the log holds.
UnknownError == <<"Unknown ", "error">>

EvaluationInterrupted == <<"Evaluation ", "interrupted">>

\* C27: the events a call of stop_evaluation_progress emits are FAILs for
\* the entries of the active-run mapping, in the mapping's order, each with
\* the run id and the name of its entry and with the message "Unknown error"
\* when success is true and "Evaluation interrupted" when it is false: one
\* for every entry when every emit returns, and none for a name that is not
\* active (never started, or ended by an update). An emit that raises ends
\* the sweep: the events emitted before it are the FAILs of the first
\* entries.
C27_SweepFailsExactlyTheActive ==
    [][\A success \in BOOLEAN, fail_at \in 0..MaxRuns :
        StopEvaluationProgress(success, fail_at) =>
            /\ Len(Emitted) <= Len(active_runs)
            /\ fail_at = 0 => Len(Emitted) = Len(active_runs)
            /\ \A i \in DOMAIN Emitted :
                /\ Emitted[i].eventType = "FAIL"
                /\ Emitted[i].runId = active_runs[i].run
                /\ Emitted[i].job = active_runs[i].name
                /\ Emitted[i].error =
                        IF success THEN UnknownError ELSE EvaluationInterrupted
            /\ \A n \in Names :
                ~IsActive(active_runs, n) =>
                    \A i \in DOMAIN Emitted : Emitted[i].job # n]_vars

\* A stop with success true that returned after the run of a was ended by an
\* update and b was still active: its one event is the FAIL of b's run.
C27_Witness ==
    /\ last.op = "stop_evaluation_progress" /\ ~last.raised
    /\ issued = <<"a", "b">>
    /\ active_runs = <<>>
    /\ Completes(events, 1) = 1
    /\ Fails(events, 1) = 0
    /\ Fails(events, 2) = 1
    /\ events[Len(events)].runId = 2
    /\ events[Len(events)].error = UnknownError


\* C28: an entry of the active-run mapping leaves the mapping only in a call
\* of update_snapshot_evaluation_progress for its own name or of
\* stop_evaluation_progress, and its run id changes only in a new start for
\* its own name: start_evaluation_progress, the start and update callbacks
\* of other names and the creation and promotion callbacks, whatever
\* snapshot they are called with, leave the entry and its run id as they
\* are.
C28_EntryLeavesOnlyByUpdateOrStop ==
    [][\A n \in Names :
        IsActive(active_runs, n) =>
            LET run == ActiveRun(active_runs, n)
                kept == IsActive(active_runs', n) /\ ActiveRun(active_runs', n) = run
            IN  /\ ~IsActive(active_runs', n) =>
                    \/ Called("update_snapshot_evaluation_progress") /\ last'.name = n
                    \/ Called("stop_evaluation_progress")
                /\ (IsActive(active_runs', n) /\ ActiveRun(active_runs', n) # run) =>
                    Called("start_snapshot_evaluation_progress") /\ last'.name = n
                /\ Called("start_evaluation_progress") => kept
                /\ last'.op \in PhaseForwards \cup SnapshotForwards => kept
                /\ (/\ last'.op \in {"start_snapshot_evaluation_progress",
                                     "update_snapshot_evaluation_progress"}
                    /\ last'.name # n) => kept]_vars

\* The promotion of a is reported while the run of a is active and after b
\* was started and ended: the run of a is still the active one.
C28_Witness ==
    /\ last.op = "update_promotion_progress"
    /\ last.name = "a"
    /\ issued = <<"a", "b">>
    /\ active_runs = <<[name |-> "a", run |-> 1]>>


\* The step is a call of install / of is_installed.
InstallCalled == ret'.fn = "install"

IsInstalledCalled == ret'.fn = "is_installed"

\* The arguments of the call of install the step is.
Passed == ret'.args[1]

\* C24: _installed is false at first and becomes true in exactly the calls
\* of install that return after setting the console; from then on a call of
\* install, whatever its arguments, returns without constructing a console
\* wrapper and without calling set_console, so set_console is called at most
\* once in a process; is_installed returns the flag.
C24_InstallOnce ==
    /\ ~installed
    /\ [][/\ (InstallCalled /\ installed) =>
                /\ ret'.value = "returned"
                /\ wrappers' = wrappers
                /\ consoles' = consoles
                /\ installed'
          /\ installed' <=>
                \/ installed
                \/ /\ InstallCalled
                   /\ ret'.value = "returned"
                   /\ Len(consoles') = Len(consoles) + 1
          /\ Len(consoles') <= 1
          /\ IsInstalledCalled => ret'.value = installed]_vars

\* install(url="http://arg", namespace="arg_ns") has returned in a process
\* whose console was installed from the environment by an earlier call.
C24_Witness ==
    /\ ret.fn = "install"
    /\ ret.value = "returned"
    /\ ret.args[1].url = "http://arg"
    /\ ret.args[1].namespace = "arg_ns"
    /\ installed
    /\ Len(wrappers) = 1
    /\ consoles = <<[wrapped |-> "create_console()", url |-> "http://env",
                     namespace |-> "sqlmesh", api_key |-> NonePart]>>

\* C25: while nothing is installed, a call of install with no url argument
\* (or an empty one) in an environment without OPENLINEAGE_URL raises
\* ValueError, constructs no console wrapper, sets no console, emits nothing
\* and leaves _installed false; a call with a URL that follows it, none of
\* whose own calls raises, installs the console with that URL.
C25_MissingUrlRaisesBeforeAnyEffect ==
    [][/\ (/\ InstallCalled
           /\ ~installed
           /\ Passed.url \in {NotPassed, ""}
           /\ "OPENLINEAGE_URL" \notin DOMAIN environ) =>
                /\ ret'.value = "ValueError"
                /\ wrappers' = wrappers
                /\ consoles' = consoles
                /\ events' = events
                /\ ~installed'
       /\ \A call \in InstallCalls :
            (/\ ret.fn = "install"
             /\ ret.value = "ValueError"
             /\ call.url = "http://arg"
             /\ Install(call, "-")) =>
                /\ installed'
                /\ consoles' = <<wrappers'[Len(wrappers')]>>
                /\ consoles'[1].url = "http://arg"]_vars

\* install(namespace="arg_ns", api_key="arg_key") has raised ValueError where
\* only the other two variables are set: nothing is constructed or installed.
C25_Witness ==
    /\ ret.fn = "install"
    /\ ret.value = "ValueError"
    /\ ret.args[1] = [url |-> NotPassed, namespace |-> "arg_ns", api_key |-> "arg_key"]
    /\ DOMAIN environ = {"OPENLINEAGE_NAMESPACE", "OPENLINEAGE_API_KEY"}
    /\ wrappers = <<>>
    /\ consoles = <<>>
    /\ ~installed

\* What the setting is to be by the rule "the argument, else the
\* environment variable, else the default", for an argument that is passed
\* with a value or not passed.
Setting(call, param, variable) ==
    IF call[param] # NotPassed THEN call[param]
    ELSE IF variable \in DOMAIN environ THEN environ[variable]
    ELSE InstallDefaults[param]

\* The job namespace of the events a console emits.
EventNamespace(console) ==
    StartRunEvent(LineageSnapshot(TRUE, None), 1, console.namespace).job.namespace

\* C26: the console install sets has, for each of url, namespace and
\* api_key, the argument when it is passed with a value and the environment
\* variable when it is not passed and the variable is set; the events of the
\* console are under that namespace.
C26_ArgumentElseEnvironment ==
    [][\A call \in InstallCalls :
        (/\ Install(call, "-")
         /\ ~installed
         /\ installed'
         /\ call.url # "" /\ call.namespace # "") =>
            LET console == consoles'[1]
            IN  /\ console.url = Setting(call, "url", "OPENLINEAGE_URL")
                /\ console.api_key = Setting(call, "api_key", "OPENLINEAGE_API_KEY")
                /\ console.namespace =
                        Setting(call, "namespace", "OPENLINEAGE_NAMESPACE")
                /\ EventNamespace(console) =
                        Setting(call, "namespace", "OPENLINEAGE_NAMESPACE")]_vars


\* The run ids generated by thread t, and the latest of them.
RunsOf(t) == {r \in RunIds : issued[r] = ThreadSnapshot(t).name}

CurrentRun(t) == CHOOSE r \in RunsOf(t) : \A q \in RunsOf(t) : q <= r

\* Thread t has returned from the start callback of run r / from the update
\* callback that followed it.
StartReturned(t, r) ==
    r < CurrentRun(t) \/ pc[t] \in {"evaluating", "update_emit", "idle"}

UpdateReturned(t, r) == r < CurrentRun(t) \/ pc[t] = "idle"

\* C29: however the statements of the start and update callbacks of two
\* worker threads, each for its own snapshot name, interleave, the entry a
\* thread wrote for its run is the one it finds (none is lost or replaced
\* by the other thread's), every run whose start callback has returned has
\* exactly one START, every run whose update callback has returned has
\* exactly one terminal event, after its START, and every event of a run
\* carries the name the run id was generated for.
C29_InterleavedRunsKeepTheirIds ==
    /\ \A i \in DOMAIN events :
        events[i].runId \in RunIds /\ events[i].job = issued[events[i].runId]
    /\ \A t \in Threads : \A r \in RunsOf(t) :
        /\ Starts(events, r) = IF StartReturned(t, r) THEN 1 ELSE 0
        /\ Terminals(events, r) = IF UpdateReturned(t, r) THEN 1 ELSE 0
        /\ \A i, j \in DOMAIN events :
            (/\ events[i].runId = r /\ events[i].eventType = "START"
             /\ events[j].runId = r /\ IsTerminal(events[j])) => i < j
        /\ (r = CurrentRun(t) /\ pc[t] \in {"start_store", "start_emit", "evaluating"}) =>
            ActiveRun(active_runs, ThreadSnapshot(t).name) = r

\* Both threads are done; the START of a came first and its terminal event
\* last, with both events of b between them.
C29_Witness ==
    /\ \A t \in Threads : pc[t] = "idle"
    /\ issued = <<"a", "b">>
    /\ Len(events) = 4
    /\ events[1].runId = 1 /\ events[1].eventType = "START"
    /\ events[2].runId = 2 /\ events[2].eventType = "START"
    /\ events[3].runId = 2 /\ events[3].eventType = "FAIL"
    /\ events[4].runId = 1 /\ events[4].eventType = "COMPLETE"


\* The names with an active run.
ActiveNames == {active_runs[i].name : i \in DOMAIN active_runs}

\* C34: between callbacks every name with an active run has a stored
\* snapshot, so the sweep of stop_evaluation_progress has a FAIL to emit for
\* every active run; a stored snapshot is dropped only in
\* stop_evaluation_progress, and update_snapshot_evaluation_progress leaves
\* the stored snapshots as they are.
C34_ActiveNamesHaveDescriptors ==
    /\ ActiveNames \subseteq DOMAIN current_snapshots
    /\ [][/\ ActiveNames' \subseteq DOMAIN current_snapshots'
          /\ \A success \in BOOLEAN :
                Len(SweepEvents(active_runs', current_snapshots', success)) =
                    Len(active_runs')
          /\ DOMAIN current_snapshots \ DOMAIN current_snapshots' # {} =>
                Called("stop_evaluation_progress")
          /\ Called("update_snapshot_evaluation_progress") =>
                current_snapshots' = current_snapshots]_vars

\* The run of b was ended by an update and a is still active: the snapshots
\* of both are stored.
C34_Witness ==
    /\ last.op = "update_snapshot_evaluation_progress"
    /\ last.name = "b"
    /\ issued = <<"a", "b">>
    /\ ActiveNames = {"a"}
    /\ DOMAIN current_snapshots = {"a", "b"}


\* The terminal events update_snapshot_evaluation_progress emitted for run
\* id r: its COMPLETEs and its FAILs with the audit message.
UpdateTerminals(log, r) ==
    CountWhere(log, LAMBDA ev :
        /\ ev.runId = r
        /\ \/ ev.eventType = "COMPLETE"
           \/ ev.eventType = "FAIL" /\ Contains(ev.error, "Audit failed: "))

\* The previous callback was an update for this name.
JustUpdated(name) ==
    last.op = "update_snapshot_evaluation_progress" /\ last.name = name

\* C33: the updates of one run emit at most one terminal event, so no run
\* has a COMPLETE and an audit FAIL; an update that follows an update for
\* the same name emits nothing and changes nothing, whatever its audit
\* count; and an update emits only for a name with an active run, whose
\* entry it removes.
C33_OnlyFirstUpdateEmits ==
    /\ \A r \in RunIds : UpdateTerminals(events, r) <= 1
    /\ [][/\ events' # events =>
                \A r \in 1..Len(issued') : UpdateTerminals(events', r) <= 1
          /\ \A s \in Snapshots :
                (/\ JustUpdated(s.name)
                 /\ \E n \in 0..MaxAudits, ok \in BOOLEAN :
                        UpdateSnapshotEvaluationProgress(s, n, ok)) =>
                    /\ Emitted = <<>>
                    /\ UNCHANGED <<active_runs, current_snapshots, events>>
                    /\ ~last'.raised
          /\ (Called("update_snapshot_evaluation_progress") /\ Emitted # <<>>) =>
                /\ Len(Emitted) = 1
                /\ IsActive(active_runs, last'.name)
                /\ ~IsActive(active_runs', last'.name)]_vars

\* Two updates for a after its start: the log holds the START and the
\* COMPLETE of the run and nothing else.
C33_Witness ==
    /\ JustUpdated("a")
    /\ issued = <<"a">>
    /\ active_runs = <<>>
    /\ Len(events) = 2
    /\ Starts(events, 1) = 1
    /\ Completes(events, 1) = 1


\* The terminal event at place i of the log has the START of its run id
\* before it, with the same job.
StartPrecedes(log, i) ==
    \E j \in 1..(i - 1) :
        /\ log[j].eventType = "START"
        /\ log[j].runId = log[i].runId
        /\ log[j].job = log[i].job

\* The log keeps the order of a run: its terminal event names a run id a
\* start generated and the job of that start, and no START of the run id is
\* at or after it.
RunOrderKept(log, ids) ==
    \A i \in DOMAIN log :
        IsTerminal(log[i]) =>
            /\ log[i].runId \in 1..Len(ids)
            /\ log[i].job = ids[log[i].runId]
            /\ \A j \in DOMAIN log :
                (log[j].eventType = "START" /\ log[j].runId = log[i].runId) =>
                    j < i /\ log[j].job = log[i].job

C35_SweptRunsFailExactlyOnce ==
    [][Called("stop_evaluation_progress") =>
        \A i \in DOMAIN active_runs :
            /\ Fails(events', active_runs[i].run) <= 1
            /\ ~last'.raised => Fails(events', active_runs[i].run) = 1]_vars


\* The call the console received in the step, and the calls it made on the
\* wrapped console.
Received == wrapped'.received

Forwarded == wrapped'.forwarded

\* C31: every callback that does not raise calls the same method of the
\* wrapped console exactly once, with the arguments it received in the order
\* of the signature, whether it emitted an event or not; a callback calls
\* the wrapped console at most once; the creation and promotion callbacks do
\* so without emitting an event, without raising and without changing
\* _active_runs or _current_snapshots.
C31_ForwardsOnceWithSameArguments ==
    [][/\ Received.method = last'.op
       /\ Len(Forwarded) <= 1
       /\ ~last'.raised =>
            /\ Len(Forwarded) = 1
            /\ Forwarded[1].method = Received.method
            /\ Len(Forwarded[1].args) = Len(Parameters(Received.method))
            /\ \A i \in DOMAIN Parameters(Received.method) :
                Forwarded[1].args[i] = Received.args[Parameters(Received.method)[i]]
       /\ Received.method \in PhaseForwards \cup SnapshotForwards =>
            /\ ~last'.raised
            /\ Emitted = <<>>
            /\ UNCHANGED <<active_runs, current_snapshots, issued, superseded>>]_vars

\* An update with one failed audit for a, which has no active run: nothing
\* is emitted and the wrapped console gets the update with the same counts.
C31_Witness ==
    /\ last.op = "update_snapshot_evaluation_progress"
    /\ last.name = "a"
    /\ events = <<>>
    /\ issued = <<>>
    /\ Len(wrapped.forwarded) = 1
    /\ wrapped.forwarded[1].method = "update_snapshot_evaluation_progress"
    /\ wrapped.forwarded[1].args[1] = [name |-> "a"]
    /\ wrapped.forwarded[1].args[6] = 1
====
